---- MODULE Spec2Model ----
(***************************************************************************)
(* State-machine model of the smart-resume-screening front end: the shell  *)
(* (App.js), the resume panel (ResumeManager.js), the job panel            *)
(* (JobManager.js), the matching panel (MatchingDashboard.js) and the      *)
(* analytics panel (Analytics.js).  Every asynchronous handler is cut at   *)
(* its awaits: one action per synchronous stretch of code.                 *)
(***************************************************************************)
EXTENDS Integers, Sequences, FiniteSets, TLC

VARIABLES
    appVersion,      \* which App() of App.js is mounted: 1 (line 7), 2 (line 472) or 3 (line 716)
    loading,         \* App: const [loading, setLoading]
    notification,    \* App: const [notification, setNotification]
    notifTimers,     \* pending setTimeout(() => setNotification(null), 5000)
    resumes,         \* ResumeManager / App v1: const [resumes, setResumes]
    uploadProgress,  \* ResumeManager: const [uploadProgress, setUploadProgress]
    uploads,         \* the invocations of handleFileUpload, each at its await
    refreshTimers,   \* pending setTimeout(() => loadResumes(), 2000)
    resumeLoads,     \* GET /api/v2/resumes requests in flight
    jobForm,         \* JobManager: const [jobForm, setJobForm]
    filters,         \* JobManager: const [filters, setFilters]
    jobs,            \* JobManager: const [jobs, setJobs]
    jobPosts,        \* POST /api/v2/jobs requests in flight, each with its jobData
    jobLoads,        \* GET /api/v2/jobs requests of JobManager in flight
    jobClicks,       \* clicks on the submit button so far
    filterEdits,     \* edits of the company filter so far
    jobPostsIssued,  \* POST /api/v2/jobs requests issued so far
    mdVersion,       \* which MatchingDashboard is mounted: 1 (line 5) or 2 (line 291); 0 for the first App, which matches by itself
    mdJobs,          \* MatchingDashboard (and the first App): const [jobs, setJobs]
    searchQuery,     \* MatchingDashboard: const [searchQuery, setSearchQuery]
    selectedJob,     \* MatchingDashboard: const [selectedJob, setSelectedJob]
    matches,         \* MatchingDashboard: const [matches, setMatches]
    mdJobLoads,      \* GET /api/v2/jobs requests of MatchingDashboard in flight
    matchRequests,   \* POST /api/v2/match/advanced requests in flight, each with its job_id and number
    matchClicks,     \* clicks on a Find Matches button so far
    appliedRequest,  \* history: the number of the match request whose outcome setMatches stored last
    overview,        \* Analytics: const [overview, setOverview]
    performanceMetrics, \* Analytics: const [performanceMetrics, setPerformanceMetrics]
    analyticsLoads,  \* invocations of loadAnalyticsData waiting at their Promise.all
    refreshClicks,   \* clicks on Refresh Data / Try Again so far
    appMounted,      \* App is mounted: its effect has run and its cleanup has not
    activeTab,       \* App: const [activeTab, setActiveTab]
    systemHealth,    \* App: const [systemHealth, setSystemHealth], by its status
    dashboardStats,  \* App v2: const [dashboardStats, setDashboardStats]
    interval,        \* App: const interval of the effect that ran last (a timer id)
    intervals,       \* the browser's active interval timers, each with the activeTab its callback closed over
    healthChecks,    \* GET /health requests in flight
    statsLoads,      \* invocations of loadDashboardStats waiting at their Promise.all
    pollsFired,      \* firings of an interval timer so far
    tabClicks,       \* clicks on a tab other than the active one so far
    firedInterval,   \* history: the id of the interval timer that fired last
    dbJobs,          \* init.sql: the ids of the rows of jobs
    dbResumes,       \* init.sql: the ids of the rows of resumes
    dbMatches,       \* init.sql: the rows of job_resume_matches
    dbJobStatus,     \* init.sql: status and embedding_status of each row of jobs
    dbResumeStatus,  \* init.sql: processing_status and embedding_status of each row of resumes
    dbWrites,        \* writes of a status column by the backend so far
    dbNextId         \* per table, the next value of uuid_generate_v4(): never one it returned before

shellVars == <<appVersion, loading, notification, notifTimers>>
resumeVars == <<resumes, uploadProgress, uploads, refreshTimers, resumeLoads>>
resumeVarsButUploads == <<resumes, uploadProgress, refreshTimers, resumeLoads>>
jobVars == <<jobForm, filters, jobs, jobPosts, jobLoads, jobClicks, filterEdits,
            jobPostsIssued>>
matchVars == <<mdVersion, mdJobs, searchQuery, selectedJob, matches, mdJobLoads,
              matchRequests, matchClicks, appliedRequest>>
analyticsVars == <<overview, performanceMetrics, analyticsLoads, refreshClicks>>
pollVars == <<appMounted, activeTab, systemHealth, dashboardStats, interval, intervals,
              healthChecks, statsLoads, pollsFired, tabClicks, firedInterval>>
dbVars == <<dbJobs, dbResumes, dbMatches, dbJobStatus, dbResumeStatus, dbWrites, dbNextId>>
outsideResume == <<jobVars, matchVars, analyticsVars, pollVars, dbVars>>
outsideJobs == <<resumeVars, matchVars, analyticsVars, pollVars, dbVars>>
outsideMatching == <<resumeVars, jobVars, analyticsVars, pollVars, dbVars>>
outsideAnalytics == <<resumeVars, jobVars, matchVars, pollVars, dbVars>>
outsidePoll == <<resumeVars, jobVars, matchVars, analyticsVars, dbVars>>
outsideDatabase == <<resumeVars, jobVars, matchVars, analyticsVars, pollVars>>
panelVars == <<resumeVars, jobVars, matchVars, analyticsVars, pollVars, dbVars>>
vars == <<shellVars, panelVars>>

(***************************************************************************)
(* Bounds of the model.                                                    *)
(***************************************************************************)
MaxFiles == 2        \* files in one selection
MaxJobClicks == 2    \* clicks on the submit button in one run
MaxFilterEdits == 1  \* edits of the company filter in one run

(***************************************************************************)
(* Strings the code inspects character by character are sequences of       *)
(* one-character strings.                                                  *)
(***************************************************************************)
UpperCaseLetters ==
    <<"A", "B", "C", "D", "E", "F", "G", "H", "I", "J", "K", "L", "M",
      "N", "O", "P", "Q", "R", "S", "T", "U", "V", "W", "X", "Y", "Z">>

LowerCaseLetters ==
    <<"a", "b", "c", "d", "e", "f", "g", "h", "i", "j", "k", "l", "m",
      "n", "o", "p", "q", "r", "s", "t", "u", "v", "w", "x", "y", "z">>

Lower(c) ==
    IF \E i \in DOMAIN UpperCaseLetters : UpperCaseLetters[i] = c
    THEN LowerCaseLetters[CHOOSE i \in DOMAIN UpperCaseLetters : UpperCaseLetters[i] = c]
    ELSE c

toLowerCase(s) == [i \in 1..Len(s) |-> Lower(s[i])]

EndsWith(s, suffix) ==
    /\ Len(s) >= Len(suffix)
    /\ SubSeq(s, Len(s) - Len(suffix) + 1, Len(s)) = suffix

AllowedExtensions ==
    { <<".", "p", "d", "f">>, <<".", "d", "o", "c", "x">>, <<".", "t", "x", "t">> }

\* file.name.toLowerCase().match(/\.(pdf|docx|txt)$/)
MatchesAllowedFormat(name) ==
    \E ext \in AllowedExtensions : EndsWith(toLowerCase(name), ext)

\* 10 * 1024 * 1024
MaxFileSize == 10 * 1024 * 1024

\* file.size > 10 * 1024 * 1024
FileTooLarge(size) == size > MaxFileSize

(***************************************************************************)
(* Inputs.                                                                 *)
(***************************************************************************)
\* the files a user selects: an upper-case extension at exactly 10 MB, a DOCX one
\* byte above it, an executable (also above it), a small text file, and a name
\* that is an extension without its dot
Files ==
    { [name |-> <<"a", ".", "P", "D", "F">>, size |-> MaxFileSize],
      [name |-> <<"b", ".", "d", "o", "c", "x">>, size |-> MaxFileSize + 1],
      [name |-> <<"c", ".", "e", "x", "e">>, size |-> MaxFileSize + 1],
      [name |-> <<"d", ".", "t", "x", "t">>, size |-> 1],
      [name |-> <<"p", "d", "f">>, size |-> 1] }

\* a FileList: zero to MaxFiles files, in order
Selections == UNION { [1..k -> Files] : k \in 0..MaxFiles }

\* what axios rejects with: error.message and error.response?.data?.detail
Errors ==
    { [message |-> "Network Error", hasDetail |-> FALSE, detail |-> ""],
      [message |-> "Request failed with status code 500", hasDetail |-> TRUE, detail |-> ""],
      [message |-> "Request failed with status code 400", hasDetail |-> TRUE,
       detail |-> "Invalid request"] }

\* error.response?.data?.detail || error.message
DetailOrMessage(err) ==
    IF err.hasDetail /\ err.detail # "" THEN err.detail ELSE err.message

\* Math.round((progressEvent.loaded * 100) / progressEvent.total)
ProgressValues == {50, 100}

\* response.data of GET /api/v2/resumes: null, or a list of resumes
NullData == [null |-> TRUE, items |-> <<>>]
ListData(items) == [null |-> FALSE, items |-> items]
ResumeListResponses == { NullData, ListData(<<>>), ListData(<<"resume-1">>) }

\* response.data || []
DataOrEmpty(data) == IF data.null THEN <<>> ELSE data.items

(***************************************************************************)
(* The shell: notification and loading flag.                               *)
(***************************************************************************)
NoNotification == [message |-> [tpl |-> "", name |-> <<>>, text |-> ""], type |-> "null"]

\* a template literal with the file name and the error text it interpolates
Message(tpl, name, text) == [tpl |-> tpl, name |-> name, text |-> text]

\* (mutant) a notification without its timer
showNotificationSticky(message, type) ==
    /\ notification' = [message |-> message, type |-> type]
    /\ notifTimers' = notifTimers

\* showNotification: setNotification({ message, type }); setTimeout(..., 5000)
showNotification(message, type) ==
    /\ notification' = [message |-> message, type |-> type]
    /\ notifTimers' = notifTimers + 1

\* the 5 s timer of a showNotification fires: setNotification(null)
NotificationTimerFires ==
    /\ notifTimers > 0
    /\ notifTimers' = notifTimers - 1
    /\ notification' = NoNotification
    /\ UNCHANGED <<appVersion, loading, panelVars>>

\* the dismiss button: onClick={() => setNotification(null)}
DismissNotification ==
    /\ notification # NoNotification
    /\ notification' = NoNotification
    /\ UNCHANGED <<appVersion, loading, notifTimers, panelVars>>

(***************************************************************************)
(* The resume panel.  uploads[s] is one invocation of handleFileUpload:    *)
(* pc "idle" (not yet invoked), "loop" (at the head of the for loop, about *)
(* to take files[i]), "awaiting" (at the await of the POST of files[i]),   *)
(* "done" (returned).  sent is the set of indices whose POST               *)
(* /api/v2/resumes/upload was issued.                                      *)
(***************************************************************************)
\* the invocations of handleFileUpload of one run
UploadSlots == {1}

IdleUpload == [pc |-> "idle", files |-> <<>>, i |-> 0, sent |-> {}]

\* setUploadProgress(prev => ({ ...prev, [file.name]: value }))
SetProgress(progress, name, value) ==
    [n \in DOMAIN progress \cup {name} |-> IF n = name THEN value ELSE progress[n]]

\* the entry is left in the map (the delete left out)
KeepProgress(progress, name) == progress

\* setUploadProgress(prev => { const p = { ...prev }; delete p[file.name]; return p; })
RemoveProgress(progress, name) ==
    [n \in DOMAIN progress \ {name} |-> progress[n]]

\* loadResumes(), up to its await: the GET is issued
\* (ResumeManager sets the loading flag first, App v1 does not)
IssueLoadResumes ==
    /\ resumeLoads' = resumeLoads + 1
    /\ loading' = IF appVersion = 1 THEN loading ELSE TRUE

\* GET /api/v2/resumes resolves
LoadResumesSucceeds(data) ==
    /\ resumeLoads > 0
    /\ resumeLoads' = resumeLoads - 1
    /\ resumes' = DataOrEmpty(data)
    /\ loading' = IF appVersion = 1 THEN loading ELSE FALSE
    /\ UNCHANGED <<appVersion, notification, notifTimers, uploadProgress, uploads,
                   refreshTimers>>
    /\ UNCHANGED outsideResume

\* GET /api/v2/resumes rejects
LoadResumesFails(err) ==
    /\ resumeLoads > 0
    /\ resumeLoads' = resumeLoads - 1
    /\ IF appVersion = 1
         THEN UNCHANGED <<loading, notification, notifTimers>>
         ELSE /\ showNotification(Message("Error loading resumes: ${text}", <<>>,
                                          err.message), "error")
              /\ loading' = FALSE
    /\ UNCHANGED <<appVersion, resumes, uploadProgress, uploads, refreshTimers>>
    /\ UNCHANGED outsideResume

\* setTimeout(() => { loadResumes(); }, 2000) fires
RefreshTimerFires ==
    /\ refreshTimers > 0
    /\ refreshTimers' = refreshTimers - 1
    /\ IssueLoadResumes
    /\ UNCHANGED <<appVersion, notification, notifTimers, resumes, uploadProgress,
                   uploads>>
    /\ UNCHANGED outsideResume

\* ResumeManager.handleFileUpload is invoked (file input onChange, handleDrop)
RMStartUpload(s, files) ==
    /\ appVersion # 1
    /\ uploads[s].pc = "idle"
    /\ \A t \in UploadSlots : t < s => uploads[t].pc # "idle"
    /\ uploads' = [uploads EXCEPT ![s] =
          IF Len(files) = 0
            THEN [pc |-> "done", files |-> files, i |-> 0, sent |-> {}]
            ELSE [pc |-> "loop", files |-> files, i |-> 1, sent |-> {}]]
    /\ UNCHANGED <<shellVars, resumes, uploadProgress, refreshTimers, resumeLoads>>
    /\ UNCHANGED outsideResume

\* (mutant) the refresh is scheduled after every file
RMNextFileRefreshing(s) ==
    /\ uploads' = [uploads EXCEPT ![s].pc = IF uploads[s].i < Len(uploads[s].files)
                                              THEN "loop" ELSE "done",
                                  ![s].i = IF uploads[s].i < Len(uploads[s].files)
                                             THEN @ + 1 ELSE @]
    /\ refreshTimers' = refreshTimers + 1

\* the for loop moves past files[i]; after the last file the refresh is scheduled
RMNextFile(s) ==
    IF uploads[s].i < Len(uploads[s].files)
      THEN /\ uploads' = [uploads EXCEPT ![s].pc = "loop", ![s].i = @ + 1]
           /\ UNCHANGED refreshTimers
      ELSE /\ uploads' = [uploads EXCEPT ![s].pc = "done"]
           /\ refreshTimers' = refreshTimers + 1

\* (mutant) break instead of continue: a rejected file ends the batch
RMBreak(s) ==
    /\ uploads' = [uploads EXCEPT ![s].pc = "done"]
    /\ refreshTimers' = refreshTimers + 1

\* continue: the loop goes on with the next file
RMContinue(s) == RMNextFile(s)

\* one iteration of the for loop, up to continue or to the await of the POST
RMLoopStep(s) ==
    /\ appVersion # 1
    /\ uploads[s].pc = "loop"
    /\ LET file == uploads[s].files[uploads[s].i] IN
         IF ~MatchesAllowedFormat(file.name)
           THEN /\ showNotification(
                     Message("Invalid file format: ${name}. Please use PDF, DOCX, or TXT.",
                             file.name, ""), "error")
                /\ RMContinue(s)
                /\ UNCHANGED uploadProgress
           ELSE IF FileTooLarge(file.size)
           THEN /\ showNotification(
                     Message("File too large: ${name}. Maximum size is 10MB.",
                             file.name, ""), "error")
                /\ RMContinue(s)
                /\ UNCHANGED uploadProgress
           ELSE /\ uploadProgress' = SetProgress(uploadProgress, file.name, 0)
                /\ uploads' = [uploads EXCEPT ![s].pc = "awaiting",
                                              ![s].sent = @ \cup {uploads[s].i}]
                /\ UNCHANGED <<notification, notifTimers, refreshTimers>>
    /\ UNCHANGED <<appVersion, loading, resumes, resumeLoads>>
    /\ UNCHANGED outsideResume

\* onUploadProgress of the POST in flight
RMUploadProgress(s, percentCompleted) ==
    /\ appVersion # 1
    /\ uploads[s].pc = "awaiting"
    /\ uploadProgress' = SetProgress(uploadProgress,
                                     uploads[s].files[uploads[s].i].name, percentCompleted)
    /\ UNCHANGED <<shellVars, resumes, uploads, refreshTimers, resumeLoads>>
    /\ UNCHANGED outsideResume

\* the POST resolves; hasData is the truthiness of response.data
RMUploadSucceeds(s, hasData) ==
    /\ appVersion # 1
    /\ uploads[s].pc = "awaiting"
    /\ LET file == uploads[s].files[uploads[s].i] IN
         /\ IF hasData
              THEN showNotification(
                     Message("Resume \"${name}\" uploaded successfully!", file.name, ""),
                     "success")
              ELSE UNCHANGED <<notification, notifTimers>>
         /\ uploadProgress' = RemoveProgress(uploadProgress, file.name)
    /\ RMNextFile(s)
    /\ UNCHANGED <<appVersion, loading, resumes, resumeLoads>>
    /\ UNCHANGED outsideResume

\* the POST rejects (network error or non-2xx)
RMUploadFails(s, err) ==
    /\ appVersion # 1
    /\ uploads[s].pc = "awaiting"
    /\ LET file == uploads[s].files[uploads[s].i] IN
         /\ showNotification(
              Message("Error uploading ${name}: ${text}", file.name, DetailOrMessage(err)),
              "error")
         /\ uploadProgress' = RemoveProgress(uploadProgress, file.name)
    /\ RMNextFile(s)
    /\ UNCHANGED <<appVersion, loading, resumes, resumeLoads>>
    /\ UNCHANGED outsideResume

(***************************************************************************)
(* The upload flow of the first App of App.js (no ResumeManager).          *)
(***************************************************************************)
\* App.handleFileUpload is invoked; the input is disabled while loading
V1StartUpload(s, files) ==
    /\ appVersion = 1
    /\ ~loading
    /\ uploads[s].pc = "idle"
    /\ \A t \in UploadSlots : t < s => uploads[t].pc # "idle"
    /\ IF Len(files) = 0
         THEN /\ uploads' = [uploads EXCEPT ![s] =
                    [pc |-> "done", files |-> files, i |-> 0, sent |-> {}]]
              /\ UNCHANGED loading
         ELSE /\ uploads' = [uploads EXCEPT ![s] =
                    [pc |-> "loop", files |-> files, i |-> 1, sent |-> {}]]
              /\ loading' = TRUE
    /\ UNCHANGED <<appVersion, notification, notifTimers, resumeVarsButUploads>>
    /\ UNCHANGED outsideResume

\* one iteration of the for loop: the POST of files[i] is issued
V1LoopStep(s) ==
    /\ appVersion = 1
    /\ uploads[s].pc = "loop"
    /\ uploads' = [uploads EXCEPT ![s].pc = "awaiting", ![s].sent = @ \cup {uploads[s].i}]
    /\ UNCHANGED <<shellVars, resumeVarsButUploads>>
    /\ UNCHANGED outsideResume

\* the POST resolves; after the last file: notification, loadResumes(), finally
V1UploadSucceeds(s) ==
    /\ appVersion = 1
    /\ uploads[s].pc = "awaiting"
    /\ IF uploads[s].i < Len(uploads[s].files)
         THEN /\ uploads' = [uploads EXCEPT ![s].pc = "loop", ![s].i = @ + 1]
              /\ UNCHANGED <<loading, notification, notifTimers, resumeLoads>>
         ELSE /\ uploads' = [uploads EXCEPT ![s].pc = "done"]
              /\ showNotification(Message("Files uploaded successfully!", <<>>, ""), "success")
              /\ resumeLoads' = resumeLoads + 1
              /\ loading' = FALSE
    /\ UNCHANGED <<appVersion, resumes, uploadProgress, refreshTimers>>
    /\ UNCHANGED outsideResume

\* the POST rejects: catch, finally; the rest of the files is never posted
V1UploadFails(s, err) ==
    /\ appVersion = 1
    /\ uploads[s].pc = "awaiting"
    /\ uploads' = [uploads EXCEPT ![s].pc = "done"]
    /\ showNotification(Message("Upload failed: ${text}", <<>>, err.message), "error")
    /\ loading' = FALSE
    /\ UNCHANGED <<appVersion, resumeVarsButUploads>>
    /\ UNCHANGED outsideResume

(***************************************************************************)
(* The job panel (JobManager.js, the complete version of lines 71-335).    *)
(***************************************************************************)
\* text typed into the form: sequences of characters
EmptyText == <<>>

\* useState of jobForm
InitialJobForm ==
    [ title |-> EmptyText, company |-> EmptyText, description |-> EmptyText,
      requirements |-> EmptyText, required_skills |-> EmptyText,
      experience_level |-> "mid", location |-> EmptyText, salary_range |-> EmptyText,
      department |-> EmptyText, job_type |-> "full_time", remote_allowed |-> FALSE ]

\* (mutant) the reset literal has lost its location
ResetJobFormKeepingLocation == [InitialJobForm EXCEPT !.location = <<"x">>]

\* setJobForm({ title: '', company: '', ... }) of handleSubmit
ResetJobForm ==
    [ title |-> EmptyText, company |-> EmptyText, description |-> EmptyText,
      requirements |-> EmptyText, required_skills |-> EmptyText,
      experience_level |-> "mid", location |-> EmptyText, salary_range |-> EmptyText,
      department |-> EmptyText, job_type |-> "full_time", remote_allowed |-> FALSE ]

InitialFilters == [company |-> EmptyText, status |-> EmptyText, skip |-> 0, limit |-> 20]

\* the inputs, textareas and select of the form that carry the attribute required
RequiredControls ==
    {"title", "company", "experience_level", "location", "description",
     "requirements", "required_skills"}

\* the value of a form control as the browser sees it
ControlIsEmpty(form, control) ==
    IF control = "experience_level" THEN form[control] = "" ELSE form[control] = EmptyText

\* (mutant) the location input has lost its required attribute
FormIsValidButLocation(form) ==
    \A control \in RequiredControls \ {"location"} : ~ControlIsEmpty(form, control)

\* the browser's constraint validation of <form onSubmit={handleSubmit}>:
\* onSubmit fires only if no required control is empty
FormIsValid(form) == \A control \in RequiredControls : ~ControlIsEmpty(form, control)

\* what the user types into the text inputs and textareas
TextInputs == { EmptyText, <<"x">> }
ListInputs == { EmptyText, <<" ", "a", ",", ",", "b", " ">> }
EditableFields ==
    {"title", "company", "location", "description", "requirements", "required_skills"}
InputsOf(field) ==
    IF field \in {"requirements", "required_skills"} THEN ListInputs ELSE TextInputs

IsWhitespace(c) == c \in {" ", "\t", "\n"}

\* String.prototype.trim
RECURSIVE trim(_)
trim(s) ==
    IF s = <<>> THEN s
    ELSE IF IsWhitespace(Head(s)) THEN trim(Tail(s))
    ELSE IF IsWhitespace(s[Len(s)]) THEN trim(SubSeq(s, 1, Len(s) - 1))
    ELSE s

\* String.prototype.split(',')
RECURSIVE split(_)
split(s) ==
    IF \A k \in 1..Len(s) : s[k] # ","
      THEN <<s>>
      ELSE LET k == CHOOSE n \in 1..Len(s) :
                      s[n] = "," /\ \A m \in 1..(n - 1) : s[m] # ","
           IN <<SubSeq(s, 1, k - 1)>> \o split(SubSeq(s, k + 1, Len(s)))

\* (mutant) the pieces without the filter
SplitListKeepingEmpty(text) ==
    LET pieces == split(text)
    IN  [k \in 1..Len(pieces) |-> trim(pieces[k])]

\* text.split(',').map(r => r.trim()).filter(r => r)
SplitList(text) ==
    LET pieces == split(text)
        trimmed == [k \in 1..Len(pieces) |-> trim(pieces[k])]
        NonEmpty(r) == r # <<>>
    IN SelectSeq(trimmed, NonEmpty)

\* const jobData = { ...jobForm, requirements: ..., required_skills: ... }
JobData(form) ==
    [form EXCEPT !.requirements = SplitList(form.requirements),
                 !.required_skills = SplitList(form.required_skills)]

\* response.data of GET /api/v2/jobs
JobListResponses == { NullData, ListData(<<>>), ListData(<<"job-1">>) }

RemoveAt(seq, k) == SubSeq(seq, 1, k - 1) \o SubSeq(seq, k + 1, Len(seq))

\* onChange of a text input or textarea: setJobForm({...jobForm, [field]: e.target.value})
EditJobForm(field, value) ==
    /\ jobForm[field] # value
    /\ jobForm' = [jobForm EXCEPT ![field] = value]
    /\ UNCHANGED <<filters, jobs, jobPosts, jobLoads, jobClicks, filterEdits, jobPostsIssued>>
    /\ UNCHANGED <<shellVars, outsideJobs>>

\* loadJobs(), up to its await: the GET is issued (its setLoading(true) is
\* written where loadJobs() is called, with the caller's own writes of the flag)
IssueLoadJobs == jobLoads' = jobLoads + 1

\* onChange of the company filter: setFilters(...); the effect on [filters] runs loadJobs()
EditFilter(company) ==
    /\ filterEdits < MaxFilterEdits
    /\ filterEdits' = filterEdits + 1
    /\ filters.company # company
    /\ filters' = [filters EXCEPT !.company = company]
    /\ IssueLoadJobs
    /\ loading' = TRUE
    /\ UNCHANGED <<jobForm, jobs, jobPosts, jobClicks, jobPostsIssued>>
    /\ UNCHANGED <<appVersion, notification, notifTimers, outsideJobs>>

\* a click on "Create Job Posting": the browser validates the form and, if it is
\* valid, calls handleSubmit, which runs up to the await of the POST
SubmitJobForm ==
    /\ jobClicks < MaxJobClicks
    /\ jobClicks' = jobClicks + 1
    /\ IF FormIsValid(jobForm)
         THEN /\ loading' = TRUE
              /\ jobPosts' = Append(jobPosts, JobData(jobForm))
              /\ jobPostsIssued' = jobPostsIssued + 1
         ELSE UNCHANGED <<loading, jobPosts, jobPostsIssued>>
    /\ UNCHANGED <<jobForm, filters, jobs, jobLoads, filterEdits>>
    /\ UNCHANGED <<appVersion, notification, notifTimers, outsideJobs>>

\* text of the notification of a failed create-job request
CreateJobErrorText(err) == err.message

\* the POST resolves: form reset, loadJobs(), notification, finally
SubmitJobSucceeds(k) ==
    /\ k \in 1..Len(jobPosts)
    /\ jobPosts' = RemoveAt(jobPosts, k)
    /\ jobForm' = ResetJobForm
    /\ IssueLoadJobs
    /\ showNotification(Message("Job created successfully and is being processed!",
                                <<>>, ""), "success")
    /\ loading' = FALSE
    /\ UNCHANGED <<filters, jobs, jobClicks, filterEdits, jobPostsIssued>>
    /\ UNCHANGED <<appVersion, outsideJobs>>

\* the POST rejects: catch, finally
SubmitJobFails(k, err) ==
    /\ k \in 1..Len(jobPosts)
    /\ jobPosts' = RemoveAt(jobPosts, k)
    /\ showNotification(Message("Error creating job: ${text}", <<>>,
                                CreateJobErrorText(err)), "error")
    /\ loading' = FALSE
    /\ UNCHANGED <<jobForm, filters, jobs, jobLoads, jobClicks, filterEdits, jobPostsIssued>>
    /\ UNCHANGED <<appVersion, outsideJobs>>

\* the GET of loadJobs resolves: setJobs(response.data), finally
LoadJobsSucceeds(data) ==
    /\ jobLoads > 0
    /\ jobLoads' = jobLoads - 1
    /\ jobs' = data
    /\ loading' = FALSE
    /\ UNCHANGED <<jobForm, filters, jobPosts, jobClicks, filterEdits, jobPostsIssued>>
    /\ UNCHANGED <<appVersion, notification, notifTimers, outsideJobs>>

\* (mutant) the GET of loadJobs rejects: catch, without the finally
LoadJobsFailsStuck(err) ==
    /\ jobLoads > 0
    /\ jobLoads' = jobLoads - 1
    /\ showNotification(Message("Error loading jobs: ${text}", <<>>, err.message), "error")
    /\ loading' = loading
    /\ UNCHANGED <<jobForm, filters, jobs, jobPosts, jobClicks, filterEdits, jobPostsIssued>>
    /\ UNCHANGED <<appVersion, outsideJobs>>

\* the GET of loadJobs rejects: catch, finally
LoadJobsFails(err) ==
    /\ jobLoads > 0
    /\ jobLoads' = jobLoads - 1
    /\ showNotification(Message("Error loading jobs: ${text}", <<>>, err.message), "error")
    /\ loading' = FALSE
    /\ UNCHANGED <<jobForm, filters, jobs, jobPosts, jobClicks, filterEdits, jobPostsIssued>>
    /\ UNCHANGED <<appVersion, outsideJobs>>

\* the state of JobManager before it is mounted
JobPanelUnmounted ==
    /\ jobForm = InitialJobForm
    /\ filters = InitialFilters
    /\ jobs = ListData(<<>>)
    /\ jobPosts = <<>>
    /\ jobLoads = 0
    /\ jobClicks = 0
    /\ filterEdits = 0
    /\ jobPostsIssued = 0

\* the state of ResumeManager before it is mounted
ResumePanelUnmounted ==
    /\ resumes = <<>>
    /\ uploadProgress = <<>>
    /\ uploads = [s \in UploadSlots |-> IdleUpload]
    /\ refreshTimers = 0
    /\ resumeLoads = 0

\* the state of MatchingDashboard before it is mounted; selectedJob is a
\* sequence holding the selected job, empty for null / undefined
MatchingPanelUnmounted ==
    /\ mdVersion = 2
    /\ mdJobs = <<>>
    /\ searchQuery = <<>>
    /\ selectedJob = <<>>
    /\ matches = ListData(<<>>)
    /\ mdJobLoads = 0
    /\ matchRequests = <<>>
    /\ matchClicks = 0
    /\ appliedRequest = 0

\* a field the response does not have (undefined); counts are never negative
Missing == -1

\* overviewRes.data when it is null: the request failed or the body was empty
NullOverview ==
    [null |-> TRUE, total_resumes |-> Missing, total_jobs |-> Missing,
     total_matches |-> Missing, resume_status_distribution |-> <<>>,
     job_status_distribution |-> <<>>]

\* performanceRes.data when it is null
NullMetrics ==
    [null |-> TRUE, total_operations |-> Missing, successful_operations |-> Missing]

\* the state of Analytics before it is mounted
AnalyticsPanelUnmounted ==
    /\ overview = NullOverview
    /\ performanceMetrics = NullMetrics
    /\ analyticsLoads = 0
    /\ refreshClicks = 0

\* useState(null) of systemHealth
NullHealth == "null"

\* useState({ totalJobs: 0, totalResumes: 0, totalMatches: 0 })
InitialDashboardStats == [totalJobs |-> 0, totalResumes |-> 0, totalMatches |-> 0]

\* the state of App before its effect has run: no request issued, no timer set
HealthPollNotStarted ==
    /\ appMounted = FALSE
    /\ activeTab = "jobs"
    /\ systemHealth = NullHealth
    /\ dashboardStats = InitialDashboardStats
    /\ interval = 0
    /\ intervals = {}
    /\ healthChecks = 0
    /\ statsLoads = 0
    /\ pollsFired = 0
    /\ tabClicks = 0
    /\ firedInterval = 0

\* the three rows of INSERT INTO jobs ... VALUES (...), (...), (...)
SampleJobs == {1, 2, 3}

\* (mutant) defaults outside the enumerations
JobDefaultsDraft == [status |-> "draft", embedding_status |-> "new"]

\* status VARCHAR(50) DEFAULT 'active', embedding_status VARCHAR(50) DEFAULT 'pending'
JobDefaults == [status |-> "active", embedding_status |-> "pending"]

\* processing_status VARCHAR(50) DEFAULT 'pending', embedding_status VARCHAR(50) DEFAULT 'pending'
ResumeDefaults == [processing_status |-> "pending", embedding_status |-> "pending"]

\* the database after init.sql has run: the sample jobs, no resume, no match
DatabaseSeeded ==
    /\ dbJobs = SampleJobs
    /\ dbJobStatus = [id \in SampleJobs |-> JobDefaults]
    /\ dbResumeStatus = <<>>
    /\ dbWrites = 0
    /\ dbResumes = {}
    /\ dbMatches = {}
    /\ dbNextId = [jobs |-> Cardinality(SampleJobs) + 1, resumes |-> 1, matches |-> 1]

(***************************************************************************)
(* Specification of the upload flow: the panel has just been mounted, its  *)
(* useEffect has called loadResumes().                                     *)
(***************************************************************************)
UploadInit ==
    /\ appVersion \in {1, 3}
    /\ loading = (appVersion # 1)
    /\ notification = NoNotification
    /\ notifTimers = 0
    /\ resumes = <<>>
    /\ uploadProgress = <<>>
    /\ uploads = [s \in UploadSlots |-> IdleUpload]
    /\ refreshTimers = 0
    /\ resumeLoads = 1
    /\ JobPanelUnmounted
    /\ MatchingPanelUnmounted
    /\ AnalyticsPanelUnmounted
    /\ HealthPollNotStarted
    /\ DatabaseSeeded

UploadNext ==
    \/ \E s \in UploadSlots, files \in Selections : RMStartUpload(s, files)
    \/ \E s \in UploadSlots : RMLoopStep(s)
    \/ \E s \in UploadSlots, p \in ProgressValues : RMUploadProgress(s, p)
    \/ \E s \in UploadSlots, hasData \in BOOLEAN : RMUploadSucceeds(s, hasData)
    \/ \E s \in UploadSlots, err \in Errors : RMUploadFails(s, err)
    \/ \E s \in UploadSlots, files \in Selections : V1StartUpload(s, files)
    \/ \E s \in UploadSlots : V1LoopStep(s)
    \/ \E s \in UploadSlots : V1UploadSucceeds(s)
    \/ \E s \in UploadSlots, err \in Errors : V1UploadFails(s, err)
    \/ RefreshTimerFires
    \/ \E data \in ResumeListResponses : LoadResumesSucceeds(data)
    \/ \E err \in Errors : LoadResumesFails(err)
    \/ NotificationTimerFires
    \/ DismissNotification

SpecUpload == UploadInit /\ [][UploadNext]_vars

(***************************************************************************)
(* Claims about the upload flow.  What the specification expects of each   *)
(* input file is written down here independently of the code.              *)
(***************************************************************************)
TenMegabytes == 10485760

\* the names of Files that end, case-insensitively, in .pdf, .docx or .txt
NamesWithAllowedExtension ==
    { <<"a", ".", "P", "D", "F">>, <<"b", ".", "d", "o", "c", "x">>,
      <<"d", ".", "t", "x", "t">> }

Acceptable(file) ==
    file.name \in NamesWithAllowedExtension /\ file.size <= TenMegabytes

\* invocation s takes files[j] from the head of its loop in this step
TakesFile(s, j) ==
    /\ uploads[s].pc = "loop"
    /\ uploads[s].i = j
    /\ uploads'[s] # uploads[s]

\* C1: a file whose name does not end (case-insensitively) in .pdf, .docx or .txt
\* is never posted, and an error notification naming it is shown when the upload
\* flow reaches it.
C1_UnsupportedExtensionRejected ==
    [][\A s \in UploadSlots : \A j \in 1..Len(uploads[s].files) :
         (TakesFile(s, j) /\ uploads[s].files[j].name \notin NamesWithAllowedExtension)
            => /\ j \notin uploads'[s].sent
               /\ notification'.type = "error"
               /\ notification'.message.name = uploads[s].files[j].name]_vars

\* C2: a file with an allowed extension is posted if and only if its size is at
\* most 10 MB; a larger one gets a size-specific error notification naming it.
C2_SizeLimit ==
    [][\A s \in UploadSlots : \A j \in 1..Len(uploads[s].files) :
         (TakesFile(s, j) /\ uploads[s].files[j].name \in NamesWithAllowedExtension)
            => /\ j \in uploads'[s].sent <=> uploads[s].files[j].size <= TenMegabytes
               /\ uploads[s].files[j].size > TenMegabytes
                    => /\ notification'.type = "error"
                       /\ notification'.message.tpl
                            = "File too large: ${name}. Maximum size is 10MB."
                       /\ notification'.message.name = uploads[s].files[j].name]_vars

\* the files invocation s has dealt with so far
Processed(s) ==
    { j \in 1..Len(uploads[s].files) :
        \/ j < uploads[s].i
        \/ j = uploads[s].i /\ uploads[s].pc \in {"awaiting", "done"} }

\* C3: in ResumeManager a file that fails validation is skipped and the batch goes
\* on: of the files dealt with so far exactly the acceptable ones were posted, and
\* the invocation returns only after the last file.
C3_ValidationFailureSkipsFile ==
    appVersion # 1 =>
      \A s \in UploadSlots :
        /\ \A j \in 1..Len(uploads[s].files) :
             j \in uploads[s].sent <=> (j \in Processed(s) /\ Acceptable(uploads[s].files[j]))
        /\ uploads[s].pc = "done" => Processed(s) = 1..Len(uploads[s].files)

\* a finished batch whose second file was posted after its first one was rejected
C3_Witness ==
    /\ appVersion # 1
    /\ \E s \in UploadSlots :
         /\ uploads[s].pc = "done"
         /\ Len(uploads[s].files) >= 2
         /\ ~Acceptable(uploads[s].files[1])
         /\ 2 \in uploads[s].sent

\* C4: when the POST of one file fails, an error notification is shown for it and
\* the remaining files of the batch are still dealt with: the invocation returns
\* only if the failed file was the last one.
C4_UploadFailureIsolated ==
    [][\A s \in UploadSlots : \A err \in Errors :
         (RMUploadFails(s, err) \/ V1UploadFails(s, err))
            => /\ notification'.type = "error"
               /\ uploads'[s].pc = "done" => uploads[s].i = Len(uploads[s].files)]_vars

(***************************************************************************)
(* Specification of the job panel: JobManager has just been mounted, its   *)
(* useEffect has called loadJobs().                                        *)
(***************************************************************************)
JobsInit ==
    /\ appVersion = 3
    /\ loading = TRUE
    /\ notification = NoNotification
    /\ notifTimers = 0
    /\ ResumePanelUnmounted
    /\ MatchingPanelUnmounted
    /\ AnalyticsPanelUnmounted
    /\ HealthPollNotStarted
    /\ DatabaseSeeded
    /\ jobForm = InitialJobForm
    /\ filters = InitialFilters
    /\ jobs = ListData(<<>>)
    /\ jobPosts = <<>>
    /\ jobLoads = 1
    /\ jobClicks = 0
    /\ filterEdits = 0
    /\ jobPostsIssued = 0

JobsNext ==
    \/ \E field \in EditableFields : \E value \in InputsOf(field) : EditJobForm(field, value)
    \/ \E company \in TextInputs : EditFilter(company)
    \/ SubmitJobForm
    \/ \E k \in 1..Len(jobPosts) : SubmitJobSucceeds(k)
    \/ \E k \in 1..Len(jobPosts), err \in Errors : SubmitJobFails(k, err)
    \/ \E data \in JobListResponses : LoadJobsSucceeds(data)
    \/ \E err \in Errors : LoadJobsFails(err)
    \/ NotificationTimerFires
    \/ DismissNotification

SpecJobs == JobsInit /\ [][JobsNext]_vars

(***************************************************************************)
(* Claims about the job panel.                                             *)
(***************************************************************************)
RequiredFields ==
    {"title", "company", "description", "requirements", "required_skills", "location"}

\* C5: a submission of the create-job form with a required field empty issues no
\* POST /api/v2/jobs: whenever a POST is issued, none of title, company,
\* description, requirements, required skills and location was empty.
C5_EmptyRequiredFieldBlocksSubmit ==
    [][jobPostsIssued' # jobPostsIssued
         => \A field \in RequiredFields : jobForm[field] # <<>>]_vars

\* the submit button was clicked with the location empty and nothing was posted
C5_Witness ==
    /\ jobClicks > 0
    /\ jobPostsIssued = 0
    /\ jobForm.location = <<>>
    /\ \A field \in RequiredFields \ {"location"} : jobForm[field] # <<>>

\* C6: the notification of a failed create-job request carries the backend's
\* error detail when the response has one, the transport error message otherwise.
C6_CreateJobErrorDetail ==
    [][\A k \in 1..Len(jobPosts) : \A err \in Errors :
         SubmitJobFails(k, err)
            => notification'.message.text
                 = IF err.hasDetail /\ err.detail # "" THEN err.detail ELSE err.message]_vars

MaxMatchJobs == 2     \* jobs in one response of GET /api/v2/jobs
MaxMatchClicks == 2   \* clicks on a Find Matches button in one run

\* job.embedding_status as the backend reports it
EmbeddingStatuses == {"completed", "pending"}

\* the title and the company of the k-th job the backend knows
JobTitles == << <<"D", "e", "v">>, <<"O", "p", "s">>, <<"Q", "A">> >>
JobCompanies == << <<"A", "c", "m", "e">>, <<"I", "n", "i">>, <<"A", "c", "m", "e">> >>

Job(k, status) ==
    [job_id |-> k, title |-> JobTitles[k], company |-> JobCompanies[k],
     embedding_status |-> status]

\* response.data of GET /api/v2/jobs: null, or zero to MaxMatchJobs jobs
MDJobListResponses ==
    {NullData} \cup
    { ListData([k \in DOMAIN st |-> Job(k, st[k])]) :
        st \in UNION { [1..n -> EmbeddingStatuses] : n \in 0..MaxMatchJobs } }

\* what the user types into the search box
SearchInputs == { <<>>, <<"d", "E">> }

\* match.recommendation is a sequence holding the string, empty when the
\* response leaves the field out or sends null
MissingRecommendation == <<>>

\* overall_score and recommendation of one match of a response
Scored(score, recommendation) == [overall_score |-> score, recommendation |-> recommendation]

\* the matches of one response, best first
ScoreLists ==
    { <<>>,
      <<Scored(95, <<"strongly_recommended">>), Scored(72, <<"recommended">>),
        Scored(40, <<"consider">>)>>,
      <<Scored(100, <<"strongly_recommended">>), Scored(80, <<"recommended">>),
        Scored(79, <<"consider">>), Scored(60, <<"not_recommended">>),
        Scored(59, <<"">>), Scored(0, <<"Recommended">>)>>,
      <<Scored(50, MissingRecommendation)>> }

\* a match of the response to the request for job jobId
Match(jobId, k, scored) ==
    [job_id |-> jobId, resume_id |-> k, overall_score |-> scored.overall_score,
     recommendation |-> scored.recommendation]

\* response.data of POST /api/v2/match/advanced?job_id=jobId
MatchResponses(jobId) ==
    {NullData} \cup
    { ListData([k \in 1..Len(scores) |-> Match(jobId, k, scores[k])]) : scores \in ScoreLists }

\* String.prototype.includes
includes(s, q) ==
    \E i \in 1..(Len(s) + 1) : i + Len(q) - 1 <= Len(s) /\ SubSeq(s, i, i + Len(q) - 1) = q

IsCompleted(job) == job.embedding_status = "completed"

\* the job list does not narrow the response (the filter left out)
EveryJob(items) == items

\* response.data.filter(job => job.embedding_status === 'completed')
CompletedJobs(items) == SelectSeq(items, IsCompleted)

MatchesSearch(job) ==
    \/ includes(toLowerCase(job.title), toLowerCase(searchQuery))
    \/ includes(toLowerCase(job.company), toLowerCase(searchQuery))

\* const filteredJobs = jobs.filter(...)
filteredJobs == SelectSeq(mdJobs, MatchesSearch)

\* the <div className="no-jobs"> placeholder, which only the second version has
NoJobsPlaceholderShown == mdVersion = 2 /\ Len(filteredJobs) = 0

\* the jobs rendered with an enabled Find Matches button
EnabledJobs == SelectSeq(filteredJobs, IsCompleted)

\* jobs.find(job => job.job_id === jobId): the first such job, or undefined
FindJob(jobId) ==
    LET found == SelectSeq(mdJobs, LAMBDA job : job.job_id = jobId)
    IN  IF found = <<>> THEN <<>> ELSE <<Head(found)>>

\* match.overall_score >= 80 ? '#28a745' : match.overall_score >= 60 ? '#ffc107' : '#dc3545'
InlineScoreColor(overall_score) ==
    IF overall_score >= 80 THEN "#28a745"
    ELSE IF overall_score >= 60 THEN "#ffc107"
    ELSE "#dc3545"

\* a green threshold that excludes 80 itself
getScoreColorAbove80(score) ==
    IF score > 80 THEN "#28a745"
    ELSE IF score >= 60 THEN "#ffc107"
    ELSE "#dc3545"

getScoreColor(score) ==
    IF score >= 80 THEN "#28a745"
    ELSE IF score >= 60 THEN "#ffc107"
    ELSE "#dc3545"

\* the colour of the overall score of a rendered match
OverallScoreColor(match) ==
    IF mdVersion = 1 THEN InlineScoreColor(match.overall_score)
    ELSE getScoreColor(match.overall_score)

\* the match cards on screen: the matches panel renders matches.map(...) only
\* under {selectedJob ? ... }
RenderedMatches == IF selectedJob = <<>> THEN <<>> ELSE DataOrEmpty(matches)

\* a mapping whose default is the colour of 'consider'
getRecommendationColorLenient(recommendation) ==
    IF recommendation = <<"strongly_recommended">> THEN "#28a745"
    ELSE IF recommendation = <<"recommended">> THEN "#17a2b8"
    ELSE "#ffc107"

\* switch (recommendation) { case ...: return ...; default: return '#dc3545'; }
getRecommendationColor(recommendation) ==
    IF recommendation = <<"strongly_recommended">> THEN "#28a745"
    ELSE IF recommendation = <<"recommended">> THEN "#17a2b8"
    ELSE IF recommendation = <<"consider">> THEN "#ffc107"
    ELSE "#dc3545"

\* the icons by name: star, check mark, thinking face, cross mark
getRecommendationIcon(recommendation) ==
    IF recommendation = <<"strongly_recommended">> THEN "star"
    ELSE IF recommendation = <<"recommended">> THEN "check mark"
    ELSE IF recommendation = <<"consider">> THEN "thinking face"
    ELSE "cross mark"

\* match.recommendation.replace('_', ' ').toUpperCase() raises a TypeError when
\* recommendation is null or undefined (the text of the label is not modelled)
RecommendationLabelThrows(match) == match.recommendation = MissingRecommendation

\* rendering the match cards raises an error; no component catches it, so the
\* whole application is unmounted and no handler changes its state any more
RenderThrows == \E i \in 1..Len(RenderedMatches) : RecommendationLabelThrows(RenderedMatches[i])

\* onChange={(e) => setSearchQuery(e.target.value)}
EditSearchQuery(value) ==
    /\ ~RenderThrows
    /\ value # searchQuery
    /\ searchQuery' = value
    /\ UNCHANGED <<mdVersion, mdJobs, selectedJob, matches, mdJobLoads, matchRequests,
                   matchClicks, appliedRequest>>
    /\ UNCHANGED <<shellVars, outsideMatching>>

\* loadJobs: the GET resolves
MDLoadJobsSucceeds(data) ==
    /\ ~RenderThrows
    /\ mdJobLoads > 0
    /\ mdJobLoads' = mdJobLoads - 1
    /\ IF mdVersion = 1
       THEN IF data.null
            THEN \* null.filter throws a TypeError, which the catch reports
                 /\ UNCHANGED mdJobs
                 /\ showNotification(Message("Error loading jobs: ", <<>>,
                                             "Cannot read properties of null"), "error")
            ELSE /\ mdJobs' = CompletedJobs(data.items)
                 /\ UNCHANGED <<notification, notifTimers>>
       ELSE /\ mdJobs' = DataOrEmpty(data)
            /\ UNCHANGED <<notification, notifTimers>>
    /\ UNCHANGED <<mdVersion, searchQuery, selectedJob, matches, matchRequests, matchClicks,
                   appliedRequest>>
    /\ UNCHANGED <<appVersion, loading, outsideMatching>>

\* loadJobs: the GET is rejected
MDLoadJobsFails(err) ==
    /\ ~RenderThrows
    /\ mdJobLoads > 0
    /\ mdJobLoads' = mdJobLoads - 1
    /\ showNotification(Message("Error loading jobs: ", <<>>, err.message), "error")
    /\ UNCHANGED <<mdVersion, mdJobs, searchQuery, selectedJob, matches, matchRequests,
                   matchClicks, appliedRequest>>
    /\ UNCHANGED <<appVersion, loading, outsideMatching>>

\* findMatches(job.job_id) up to its await: the button of a rendered job whose
\* embedding_status is 'completed' is clicked
FindMatches(job) ==
    /\ ~RenderThrows
    /\ matchClicks < MaxMatchClicks
    /\ \E i \in 1..Len(EnabledJobs) : EnabledJobs[i] = job
    /\ matchClicks' = matchClicks + 1
    /\ loading' = TRUE
    /\ matchRequests' = Append(matchRequests, [job_id |-> job.job_id, no |-> matchClicks + 1])
    /\ UNCHANGED <<mdVersion, mdJobs, searchQuery, selectedJob, matches, mdJobLoads,
                   appliedRequest>>
    /\ UNCHANGED <<appVersion, notification, notifTimers, outsideMatching>>

\* `Found ${matchCount} matching candidates!`
FoundMessage(matchCount) ==
    Message("Found ${matchCount} matching candidates!", <<>>, ToString(matchCount))

\* what setMatches stores of response.data: response.data, or response.data || []
StoredMatches(data) == IF mdVersion = 1 THEN data ELSE ListData(DataOrEmpty(data))

\* a handler that drops the response of a request older than the one stored last
StoreResponseIfLatest(k, data) ==
    IF matchRequests[k].no < appliedRequest
    THEN UNCHANGED <<matches, selectedJob, appliedRequest>>
    ELSE /\ matches' = StoredMatches(data)
         /\ selectedJob' = FindJob(matchRequests[k].job_id)
         /\ appliedRequest' = matchRequests[k].no

\* a handler that stores the matches and leaves the selected job as it was
StoreMatchesOnly(k, data) ==
    /\ matches' = StoredMatches(data)
    /\ appliedRequest' = matchRequests[k].no
    /\ UNCHANGED selectedJob

\* setMatches(...); setSelectedJob(jobs.find(...)): whichever request resolves
StoreResponse(k, data) ==
    /\ matches' = StoredMatches(data)
    /\ selectedJob' = FindJob(matchRequests[k].job_id)
    /\ appliedRequest' = matchRequests[k].no

\* findMatches: the k-th POST in flight resolves with response.data = data
FindMatchesSucceeds(k, data) ==
    /\ ~RenderThrows
    /\ k \in 1..Len(matchRequests)
    /\ data \in MatchResponses(matchRequests[k].job_id)
    /\ matchRequests' = RemoveAt(matchRequests, k)
    /\ StoreResponse(k, data)
    /\ IF mdVersion = 1
       THEN /\ IF data.null
               THEN \* response.data.length throws a TypeError, which the catch reports
                    showNotification(Message("Error finding matches: ", <<>>,
                                             "Cannot read properties of null"), "error")
               ELSE showNotification(FoundMessage(Len(data.items)), "success")
       ELSE /\ LET matchCount == Len(DataOrEmpty(data))
               IN  showNotification(FoundMessage(matchCount),
                                    IF matchCount > 0 THEN "success" ELSE "error")
    /\ loading' = FALSE
    /\ UNCHANGED <<mdVersion, mdJobs, searchQuery, mdJobLoads, matchClicks>>
    /\ UNCHANGED <<appVersion, outsideMatching>>

\* findMatches: the k-th POST in flight is rejected
FindMatchesFails(k, err) ==
    /\ ~RenderThrows
    /\ k \in 1..Len(matchRequests)
    /\ matchRequests' = RemoveAt(matchRequests, k)
    /\ IF mdVersion = 1
       THEN /\ showNotification(Message("Error finding matches: ", <<>>, err.message), "error")
            /\ UNCHANGED <<matches, appliedRequest>>
       ELSE /\ showNotification(Message("Error finding matches: ", <<>>,
                                        DetailOrMessage(err)), "error")
            /\ matches' = ListData(<<>>)
            /\ appliedRequest' = matchRequests[k].no
    /\ loading' = FALSE
    /\ UNCHANGED <<mdVersion, mdJobs, searchQuery, selectedJob, mdJobLoads, matchClicks>>
    /\ UNCHANGED <<appVersion, outsideMatching>>

(***************************************************************************)
(* Specification of the matching panel: either version has just been       *)
(* mounted under the last App, its useEffect has called loadJobs().        *)
(***************************************************************************)
MatchingInit ==
    /\ appVersion = 3
    /\ loading = FALSE
    /\ notification = NoNotification
    /\ notifTimers = 0
    /\ ResumePanelUnmounted
    /\ JobPanelUnmounted
    /\ AnalyticsPanelUnmounted
    /\ HealthPollNotStarted
    /\ DatabaseSeeded
    /\ mdVersion \in {1, 2}
    /\ mdJobs = <<>>
    /\ searchQuery = <<>>
    /\ selectedJob = <<>>
    /\ matches = ListData(<<>>)
    /\ mdJobLoads = 1
    /\ matchRequests = <<>>
    /\ matchClicks = 0
    /\ appliedRequest = 0

MatchingNext ==
    \/ \E value \in SearchInputs : EditSearchQuery(value)
    \/ \E data \in MDJobListResponses : MDLoadJobsSucceeds(data)
    \/ \E err \in Errors : MDLoadJobsFails(err)
    \/ \E i \in 1..Len(mdJobs) : FindMatches(mdJobs[i])
    \/ \E k \in 1..Len(matchRequests) :
         \E data \in MatchResponses(matchRequests[k].job_id) : FindMatchesSucceeds(k, data)
    \/ \E k \in 1..Len(matchRequests), err \in Errors : FindMatchesFails(k, err)
    \/ NotificationTimerFires
    \/ DismissNotification

SpecMatching == MatchingInit /\ [][MatchingNext]_vars

(***************************************************************************)
(* Claims about the matching panel.                                        *)
(***************************************************************************)
NoCompletedJob(data) ==
    \A i \in 1..Len(DataOrEmpty(data)) : DataOrEmpty(data)[i].embedding_status # "completed"

\* C8: when the response to the panel's job request holds no job whose
\* embedding_status is "completed", the job list is empty afterwards and the
\* "no jobs" placeholder is on screen.
C8_NoCompletedJobShowsPlaceholder ==
    [][\A data \in MDJobListResponses :
          (MDLoadJobsSucceeds(data) /\ NoCompletedJob(data))
          => (mdJobs' = <<>> /\ NoJobsPlaceholderShown')]_vars

\* C8, as the code has it: when the response holds no job whose embedding_status
\* is "completed", no job of the list can be matched afterwards; the first
\* version's list is empty and it has no placeholder, the second version lists
\* the jobs of the response and shows the "no jobs" placeholder exactly when
\* no job is on screen.
C8_NoCompletedJobNothingToMatch ==
    [][\A data \in MDJobListResponses :
          (MDLoadJobsSucceeds(data) /\ NoCompletedJob(data))
          => /\ EnabledJobs' = <<>>
             /\ mdVersion = 1 => (mdJobs' = <<>> /\ ~NoJobsPlaceholderShown')
             /\ mdVersion = 2 => /\ mdJobs' = DataOrEmpty(data)
                                 /\ NoJobsPlaceholderShown' <=> (filteredJobs' = <<>>)]_vars

\* the second version lists a job that is still pending, its button disabled
C8_Witness ==
    /\ mdJobLoads = 0
    /\ mdJobs # <<>>
    /\ \A i \in 1..Len(mdJobs) : mdJobs[i].embedding_status = "pending"
    /\ ~NoJobsPlaceholderShown
    /\ EnabledJobs = <<>>

Green == "#28a745"
Amber == "#ffc107"
Red == "#dc3545"

\* C10: the overall score of every match on screen is green from 80 up, amber
\* from 60 up to 80 and red under 60, and on every such score the inline
\* expression of the first version and getScoreColor of the second agree.
C10_ScoreColour ==
    \A i \in 1..Len(RenderedMatches) :
        LET score == RenderedMatches[i].overall_score
            colour == OverallScoreColor(RenderedMatches[i])
        IN  /\ score >= 80 => colour = Green
            /\ (score >= 60 /\ score < 80) => colour = Amber
            /\ score < 60 => colour = Red
            /\ InlineScoreColor(score) = getScoreColor(score)

\* the scores 100, 80, 79, 60, 59 and 0 are on screen in their colours
C10_Witness ==
    /\ Len(RenderedMatches) = 6
    /\ [i \in 1..6 |-> RenderedMatches[i].overall_score] = <<100, 80, 79, 60, 59, 0>>
    /\ [i \in 1..6 |-> OverallScoreColor(RenderedMatches[i])]
         = <<Green, Green, Amber, Amber, Red, Red>>

StronglyRecommended == [colour |-> "#28a745", icon |-> "star"]
Recommended == [colour |-> "#17a2b8", icon |-> "check mark"]
Consider == [colour |-> "#ffc107", icon |-> "thinking face"]
DefaultBadge == [colour |-> "#dc3545", icon |-> "cross mark"]

\* the colour and icon of the recommendation of a rendered match
Badge(match) ==
    [colour |-> getRecommendationColor(match.recommendation),
     icon |-> getRecommendationIcon(match.recommendation)]

\* the three recognised values have their own colour and icon and every
\* other value, a missing one included, has the default ones
BadgeIsMapped(match) ==
    LET r == match.recommendation
    IN  /\ r = <<"strongly_recommended">> => Badge(match) = StronglyRecommended
        /\ r = <<"recommended">> => Badge(match) = Recommended
        /\ r = <<"consider">> => Badge(match) = Consider
        /\ r \notin {<<"strongly_recommended">>, <<"recommended">>, <<"consider">>}
              => Badge(match) = DefaultBadge

\* C20: every match on screen shows the colour and icon of its recommendation
\* by the four-way mapping, and rendering it raises no error, whatever the
\* recommendation, a missing one included.
C20_RecommendationBadge ==
    \A i \in 1..Len(RenderedMatches) :
        BadgeIsMapped(RenderedMatches[i]) /\ ~RecommendationLabelThrows(RenderedMatches[i])

\* what does hold: the colour and icon of every match on screen follow the
\* four-way mapping
RecommendationMappingHolds ==
    \A i \in 1..Len(RenderedMatches) : BadgeIsMapped(RenderedMatches[i])

\* C16: while the POST triggered by the submit button is in flight the button
\* cannot trigger a second one: a create-job POST is issued only when none is
\* in flight.  Stated for the submits made while the loading flag is down, that
\* is, while <LoadingSpinner /> does not cover the form.
C16_NoSecondRequestWhilePending ==
    [][(jobPostsIssued' # jobPostsIssued /\ ~loading) => jobPosts = <<>>]_vars

SignificandBits == 53

RECURSIVE BitsOfNat(_)
BitsOfNat(n) == IF n = 0 THEN <<>> ELSE Append(BitsOfNat(n \div 2), n % 2)

RECURSIVE NatOfBits(_)
NatOfBits(bits) ==
    IF bits = <<>> THEN 0
    ELSE 2 * NatOfBits(SubSeq(bits, 1, Len(bits) - 1)) + bits[Len(bits)]

\* the bits of NatOfBits(bits) * k + c
RECURSIVE TimesPlus(_, _, _)
TimesPlus(bits, k, c) ==
    IF bits = <<>> THEN BitsOfNat(c)
    ELSE LET d == bits[Len(bits)] * k + c
         IN  IF d % 2 = 0
             THEN Append(TimesPlus(SubSeq(bits, 1, Len(bits) - 1), k, d \div 2), 0)
             ELSE Append(TimesPlus(SubSeq(bits, 1, Len(bits) - 1), k, d \div 2), 1)

Zero == [bits |-> <<>>, exp |-> 0]

\* round to nearest, ties to even: the exact value is NatOfBits(bits) * 2^exp,
\* plus a non-zero part below the last bit when inexact
RoundToDouble(bits, exp, inexact) ==
    IF Len(bits) <= SignificandBits THEN [bits |-> bits, exp |-> exp]
    ELSE LET kept == SubSeq(bits, 1, SignificandBits)
             rest == SubSeq(bits, SignificandBits + 1, Len(bits))
             more == inexact \/ \E i \in 2..Len(rest) : rest[i] = 1
             up == rest[1] = 1 /\ (more \/ kept[SignificandBits] = 1)
             rounded == IF up THEN TimesPlus(kept, 1, 1) ELSE kept
             shift == Len(bits) - SignificandBits
         IN  IF Len(rounded) > SignificandBits
             THEN [bits |-> SubSeq(rounded, 1, SignificandBits), exp |-> exp + shift + 1]
             ELSE [bits |-> rounded, exp |-> exp + shift]

\* the binary expansion of a quotient with divisor t, two bits beyond the
\* significand: bits so far, remainder r, n bits after the binary point
RECURSIVE Expand(_, _, _, _)
Expand(bits, r, t, n) ==
    IF Len(bits) >= SignificandBits + 2 THEN [bits |-> bits, rem |-> r, frac |-> n]
    ELSE LET d == IF 2 * r >= t THEN 1 ELSE 0
         IN  Expand(IF bits = <<>> /\ d = 0 THEN <<>> ELSE Append(bits, d),
                    2 * r - d * t, t, n + 1)

\* value / total, for a count value and a count total > 0
Divide(value, total) ==
    IF value = 0 THEN Zero
    ELSE LET q == Expand(BitsOfNat(value \div total), value % total, total, 0)
         IN  RoundToDouble(q.bits, 0 - q.frac, q.rem # 0)

\* x * k, for a small whole number k
Times(x, k) ==
    IF x.bits = <<>> THEN Zero ELSE RoundToDouble(TimesPlus(x.bits, k, 0), x.exp, FALSE)

RECURSIVE PowerOfTwo(_)
PowerOfTwo(e) == IF e = 0 THEN 1 ELSE 2 * PowerOfTwo(e - 1)

\* Math.round(x): the whole number nearest to x, a half going up
MathRound(x) ==
    LET len == Len(x.bits)
        frac == 0 - x.exp
    IN  IF len = 0 THEN 0
        ELSE IF frac <= 0 THEN NatOfBits(x.bits) * PowerOfTwo(x.exp)
        ELSE IF frac > len THEN 0
        ELSE NatOfBits(SubSeq(x.bits, 1, len - frac)) + x.bits[len - frac + 1]

\* Math.round((value / total) * 100)
PercentRounded(value, total) == MathRound(Times(Divide(value, total), 100))

calculatePercentage(value, total) ==
    IF total = Missing \/ total = 0 THEN 0 ELSE PercentRounded(value, total)

(***************************************************************************)
(* The analytics panel (Analytics.js).                                     *)
(***************************************************************************)
MaxRefreshClicks == 1   \* clicks on Refresh Data / Try Again in one run

Overview(total_resumes, total_jobs, total_matches, resume_statuses, job_statuses) ==
    [null |-> FALSE, total_resumes |-> total_resumes, total_jobs |-> total_jobs,
     total_matches |-> total_matches,
     resume_status_distribution |-> resume_statuses,
     job_status_distribution |-> job_statuses]

\* one [status, count] pair of Object.entries(distribution)
Entry(status, count) == [status |-> status, count |-> count]

\* overviewRes.data: null, or the counts of a backend with resumes and jobs,
\* of an empty one, and of ones whose totals are zero or left out
OverviewResponses ==
    { NullOverview,
      Overview(40, 8, 23, <<Entry("completed", 23), Entry("failed", 17)>>,
               <<Entry("active", 3), Entry("closed", 5)>>),
      Overview(3, 4, 2, <<Entry("completed", 1), Entry("pending", 2)>>,
               <<Entry("active", 1), Entry("closed", 3)>>),
      Overview(200, 8, 0, <<Entry("completed", 29), Entry("failed", 171)>>, <<>>),
      Overview(0, 0, 0, <<>>, <<>>),
      Overview(0, Missing, 5, <<Entry("completed", 2)>>, <<Entry("active", 1)>>),
      Overview(Missing, 0, 3, <<Entry("completed", 2)>>, <<Entry("active", 1)>>) }

Metrics(total_operations, successful_operations) ==
    [null |-> FALSE, total_operations |-> total_operations,
     successful_operations |-> successful_operations]

\* performanceRes.data: null, or the last_24_hours counts
MetricsResponses ==
    { NullMetrics, Metrics(200, 115), Metrics(8, 5), Metrics(3, 3), Metrics(0, 0),
      Metrics(Missing, 0) }

\* overview.total_matches > 0 && overview.total_resumes > 0 ? Math.round(...) : 0
MatchRate ==
    IF /\ overview.total_matches # Missing /\ overview.total_matches > 0
       /\ overview.total_resumes # Missing /\ overview.total_resumes > 0
    THEN PercentRounded(overview.total_matches, overview.total_resumes)
    ELSE 0

\* calculatePercentage(count, overview.total_resumes)
ResumeStatusPercent(entry) == calculatePercentage(entry.count, overview.total_resumes)

\* calculatePercentage(count, overview.total_jobs)
JobStatusPercent(entry) == calculatePercentage(entry.count, overview.total_jobs)

\* last_24_hours.total_operations > 0 ? Math.round(...) : 0
SuccessRate ==
    IF /\ performanceMetrics.total_operations # Missing
       /\ performanceMetrics.total_operations > 0
    THEN PercentRounded(performanceMetrics.successful_operations,
                        performanceMetrics.total_operations)
    ELSE 0

Shown(percent, value, total) == [percent |-> percent, value |-> value, total |-> total]

\* every percentage on screen, with the counts it is computed from: the
\* overview half renders under {overview ? ...}, the performance half under
\* {performanceMetrics ? ...}
Percentages ==
    (IF overview.null THEN {}
     ELSE {Shown(MatchRate, overview.total_matches, overview.total_resumes)}
          \cup { Shown(ResumeStatusPercent(overview.resume_status_distribution[i]),
                       overview.resume_status_distribution[i].count,
                       overview.total_resumes) :
                   i \in 1..Len(overview.resume_status_distribution) }
          \cup { Shown(JobStatusPercent(overview.job_status_distribution[i]),
                       overview.job_status_distribution[i].count,
                       overview.total_jobs) :
                   i \in 1..Len(overview.job_status_distribution) })
    \cup
    (IF performanceMetrics.null THEN {}
     ELSE {Shown(SuccessRate, performanceMetrics.successful_operations,
                 performanceMetrics.total_operations)})

\* onClick={loadAnalyticsData} of Refresh Data and of Try Again, up to the await
RefreshData ==
    /\ refreshClicks < MaxRefreshClicks
    /\ refreshClicks' = refreshClicks + 1
    /\ loading' = TRUE
    /\ analyticsLoads' = analyticsLoads + 1
    /\ UNCHANGED <<overview, performanceMetrics>>
    /\ UNCHANGED <<appVersion, notification, notifTimers, outsideAnalytics>>

\* !overviewRes.data || !performanceRes.data
EitherUnavailable(overviewData, performanceData) ==
    overviewData.null \/ performanceData.null

\* !overviewRes.data && !performanceRes.data
BothUnavailable(overviewData, performanceData) ==
    overviewData.null /\ performanceData.null

\* the <div className="analytics-placeholder"> under {overview ? ... : ...}
OverviewPlaceholderShown == overview.null

\* the <div className="performance-placeholder"> under {performanceMetrics ? ... : ...}
PerformancePlaceholderShown == performanceMetrics.null

\* loadAnalyticsData after its Promise.all: each of the two requests has
\* answered with its data, or has failed and been replaced by { data: null }
LoadAnalyticsDataResolves(overviewData, performanceData) ==
    /\ analyticsLoads > 0
    /\ analyticsLoads' = analyticsLoads - 1
    /\ overview' = overviewData
    /\ performanceMetrics' = performanceData
    /\ IF BothUnavailable(overviewData, performanceData)
       THEN showNotification(Message("Unable to load analytics data", <<>>, ""), "error")
       ELSE UNCHANGED <<notification, notifTimers>>
    /\ loading' = FALSE
    /\ UNCHANGED refreshClicks
    /\ UNCHANGED <<appVersion, outsideAnalytics>>

(***************************************************************************)
(* Specification of the analytics panel: it has just been mounted under    *)
(* the last App, its useEffect has called loadAnalyticsData().             *)
(***************************************************************************)
AnalyticsInit ==
    /\ appVersion = 3
    /\ loading = TRUE
    /\ notification = NoNotification
    /\ notifTimers = 0
    /\ ResumePanelUnmounted
    /\ JobPanelUnmounted
    /\ MatchingPanelUnmounted
    /\ HealthPollNotStarted
    /\ DatabaseSeeded
    /\ overview = NullOverview
    /\ performanceMetrics = NullMetrics
    /\ analyticsLoads = 1
    /\ refreshClicks = 0

AnalyticsNext ==
    \/ RefreshData
    \/ \E overviewData \in OverviewResponses, performanceData \in MetricsResponses :
         LoadAnalyticsDataResolves(overviewData, performanceData)
    \/ NotificationTimerFires
    \/ DismissNotification

SpecAnalytics == AnalyticsInit /\ [][AnalyticsNext]_vars

(***************************************************************************)
(* Claims about the analytics panel.                                       *)
(***************************************************************************)
\* percent is round(100 * value / total): the nearest whole number, a half going up
IsRoundedPercentage(percent, value, total) ==
    /\ 2 * total * percent - total <= 200 * value
    /\ 200 * value < 2 * total * percent + total

\* C9: every percentage on screen is 0 when its denominator is 0 or missing,
\* and otherwise equals round(100 * value / total).
C9_Percentages ==
    \A p \in Percentages :
        IF p.total = Missing \/ p.total = 0 THEN p.percent = 0
        ELSE IsRoundedPercentage(p.percent, p.value, p.total)

\* the half of C9 about the denominator alone
PercentagesGuardDenominator ==
    \A p \in Percentages : (p.total = Missing \/ p.total = 0) => p.percent = 0

\* what the panel shows is a whole number nearest to 100 * value / total, on
\* an exact half either of the two
PercentagesNearest ==
    \A p \in Percentages :
        (p.total # Missing /\ p.total # 0)
        => /\ 2 * p.total * p.percent - p.total <= 200 * p.value
           /\ 200 * p.value <= 2 * p.total * p.percent + p.total

UnableToLoad == [message |-> Message("Unable to load analytics data", <<>>, ""), type |-> "error"]

\* C11: when loadAnalyticsData gets past its Promise.all, whatever each request
\* brought is stored, a request that failed (data null) leaves its own half on
\* its placeholder and the other half rendered, the loading flag is cleared,
\* and the error notification is raised exactly when both came back empty.
C11_IndependentFailures ==
    [][\A overviewData \in OverviewResponses, performanceData \in MetricsResponses :
          LoadAnalyticsDataResolves(overviewData, performanceData)
          => /\ overview' = overviewData
             /\ performanceMetrics' = performanceData
             /\ OverviewPlaceholderShown' <=> overviewData.null
             /\ PerformancePlaceholderShown' <=> performanceData.null
             /\ loading' = FALSE
             /\ IF overviewData.null /\ performanceData.null
                THEN notification' = UnableToLoad /\ notifTimers' = notifTimers + 1
                ELSE notification' = notification /\ notifTimers' = notifTimers]_vars

\* only the performance request has failed: the overview is rendered, the
\* performance half is on its placeholder, nothing is notified
C11_Witness ==
    /\ analyticsLoads = 0
    /\ ~OverviewPlaceholderShown
    /\ PerformancePlaceholderShown
    /\ overview.total_resumes = 40
    /\ ~loading
    /\ notification = NoNotification
    /\ notifTimers = 0

(***************************************************************************)
(* Claims about failed calls.                                              *)
(***************************************************************************)
\* the notification on screen is an error telling of err: it carries the
\* detail of the response or the transport message
NotifiesOf(err) ==
    /\ notification.type = "error"
    /\ notification.message.text \in {DetailOrMessage(err), err.message}

\* C12: every failed call ends in an error notification that carries the
\* backend's error detail or the transport error text; here the calls of the
\* resume list and of the uploads, under the first and the last shell.
C12_FailedCallNotifies ==
    [][\A err \in Errors :
          (\/ LoadResumesFails(err)
           \/ \E s \in UploadSlots : RMUploadFails(s, err) \/ V1UploadFails(s, err))
          => (NotifiesOf(err)' /\ notifTimers' = notifTimers + 1)]_vars

\* the names of the files whose upload request is in flight
NamesInFlight ==
    { uploads[s].files[uploads[s].i].name :
        s \in { u \in DOMAIN uploads : uploads[u].pc = "awaiting" } }

\* C14: in ResumeManager the upload-progress map holds an entry exactly for
\* the file whose request is in flight: none for a file whose request has
\* completed or failed, none for a file rejected by validation, and none at
\* all once the batch has been processed.
C14_ProgressEntryRemoved ==
    appVersion # 1 =>
      /\ DOMAIN uploadProgress = NamesInFlight
      /\ \A s \in UploadSlots :
           /\ uploads[s].pc = "done" => DOMAIN uploadProgress = {}
           /\ \A j \in 1..Len(uploads[s].files) :
                ~Acceptable(uploads[s].files[j])
                   => uploads[s].files[j].name \notin DOMAIN uploadProgress

\* a processed batch of which one file was uploaded and one was rejected
C14_Witness ==
    /\ appVersion # 1
    /\ \E s \in UploadSlots :
         /\ uploads[s].pc = "done"
         /\ uploads[s].sent # {}
         /\ \E j \in 1..Len(uploads[s].files) : ~Acceptable(uploads[s].files[j])
         /\ DOMAIN uploadProgress = {}

(***************************************************************************)
(* Specification of overlapping uploads: the panel is mounted, its list    *)
(* has been loaded, and handleFileUpload can be invoked a second time (a   *)
(* second selection, or a drop) while the first invocation is at an await. *)
(***************************************************************************)
MaxDroppedFiles == 1   \* files in one selection of this specification

\* the invocations of handleFileUpload that can be under way together
OverlappingUploads == {1, 2}

\* the files selected or dropped here: both pass the validation
DroppedFiles ==
    { [name |-> <<"a", ".", "P", "D", "F">>, size |-> MaxFileSize],
      [name |-> <<"d", ".", "t", "x", "t">>, size |-> 1] }

DroppedSelections == UNION { [1..k -> DroppedFiles] : k \in 0..MaxDroppedFiles }

OverlapInit ==
    /\ appVersion \in {1, 3}
    /\ loading = FALSE
    /\ notification = NoNotification
    /\ notifTimers = 0
    /\ resumes = <<>>
    /\ uploadProgress = <<>>
    /\ uploads = [s \in OverlappingUploads |-> IdleUpload]
    /\ refreshTimers = 0
    /\ resumeLoads = 0
    /\ JobPanelUnmounted
    /\ MatchingPanelUnmounted
    /\ AnalyticsPanelUnmounted
    /\ HealthPollNotStarted
    /\ DatabaseSeeded

OverlapNext ==
    \/ \E s \in OverlappingUploads, files \in DroppedSelections : RMStartUpload(s, files)
    \/ \E s \in OverlappingUploads : RMLoopStep(s)
    \/ \E s \in OverlappingUploads, p \in ProgressValues : RMUploadProgress(s, p)
    \/ \E s \in OverlappingUploads, hasData \in BOOLEAN : RMUploadSucceeds(s, hasData)
    \/ \E s \in OverlappingUploads, err \in Errors : RMUploadFails(s, err)
    \/ \E s \in OverlappingUploads, files \in DroppedSelections : V1StartUpload(s, files)
    \/ \E s \in OverlappingUploads : V1LoopStep(s)
    \/ \E s \in OverlappingUploads : V1UploadSucceeds(s)
    \/ \E s \in OverlappingUploads, err \in Errors : V1UploadFails(s, err)
    \/ RefreshTimerFires
    \/ \E data \in ResumeListResponses : LoadResumesSucceeds(data)
    \/ \E err \in Errors : LoadResumesFails(err)
    \/ NotificationTimerFires
    \/ DismissNotification

SpecOverlap == OverlapInit /\ [][OverlapNext]_vars

\* the upload requests in flight
UploadsInFlight == { s \in DOMAIN uploads : uploads[s].pc = "awaiting" }

\* C13: at every moment at most one upload request is in flight.
C13_OneUploadInFlight == Cardinality(UploadsInFlight) <= 1

(***************************************************************************)
(* The health poll of the shell (App v2 and v3).  The effect calls         *)
(* checkSystemHealth (and loadDashboardStats in v2), sets an interval      *)
(* timer and returns the cleanup that clears it; v2 re-runs the effect     *)
(* whenever activeTab changes, v3 runs it once.                            *)
(***************************************************************************)
MaxTabClicks == 2    \* clicks on a tab other than the active one in one run
MaxPolls == 2        \* firings of an interval timer in one run

\* the tabs of the navigation bar
Tabs ==
    IF appVersion = 2
    THEN {"dashboard", "jobs", "resumes", "matching", "analytics"}
    ELSE {"jobs", "resumes", "matching", "analytics"}

\* useState('dashboard') / useState('jobs')
InitialTab == IF appVersion = 2 THEN "dashboard" ELSE "jobs"

\* response.data of GET /health, by its status
HealthStatuses == {"healthy", "degraded"}

\* the outcomes of GET /api/v2/jobs and GET /api/v2/resumes
StatsListOutcomes ==
    { [ok |-> FALSE, data |-> NullData], [ok |-> TRUE, data |-> NullData],
      [ok |-> TRUE, data |-> ListData(<<"row-1">>)] }

\* the outcomes of GET /api/v2/analytics/overview, by data.total_matches
StatsOverviewOutcomes ==
    { [ok |-> FALSE, null |-> TRUE, total_matches |-> Missing],
      [ok |-> TRUE, null |-> TRUE, total_matches |-> Missing],
      [ok |-> TRUE, null |-> FALSE, total_matches |-> Missing],
      [ok |-> TRUE, null |-> FALSE, total_matches |-> 5] }

\* .catch(() => ({ data: [] })) followed by data?.length || 0
LengthOrZero(res) ==
    IF ~res.ok THEN 0
    ELSE IF res.data.null THEN 0 ELSE Len(res.data.items)

\* .catch(() => ({ data: { total_matches: 0 } })) followed by
\* data?.total_matches || 0
TotalMatchesOrZero(res) ==
    IF ~res.ok THEN 0
    ELSE IF res.null \/ res.total_matches = Missing THEN 0 ELSE res.total_matches

\* a cleanup that forgets its timer
keepInterval(timers, id) == timers

\* clearInterval(interval)
clearInterval(timers, id) == { t \in timers : t.id # id }

\* setInterval(callback, 30000): the callback closes over the activeTab of
\* the render whose effect set it
setInterval(timers, id, tab) == timers \cup { [id |-> id, activeTab |-> tab] }

\* the tab buttons: onClick={() => setActiveTab(tab)}; in v2 the change of
\* activeTab runs the cleanup of the previous effect, then the effect
SetActiveTab(tab) ==
    /\ appMounted
    /\ tab # activeTab
    /\ tabClicks < MaxTabClicks
    /\ tabClicks' = tabClicks + 1
    /\ activeTab' = tab
    /\ IF appVersion = 2
       THEN /\ healthChecks' = healthChecks + 1
            /\ statsLoads' = statsLoads + 1
            /\ interval' = interval + 1
            /\ intervals' = setInterval(clearInterval(intervals, interval), interval + 1, tab)
       ELSE UNCHANGED <<healthChecks, statsLoads, interval, intervals>>
    /\ UNCHANGED <<appMounted, systemHealth, dashboardStats, pollsFired, firedInterval>>
    /\ UNCHANGED <<shellVars, outsidePoll>>

\* the callback of an active interval timer runs
IntervalFires(t) ==
    /\ t \in intervals
    /\ pollsFired < MaxPolls
    /\ pollsFired' = pollsFired + 1
    /\ firedInterval' = t.id
    /\ healthChecks' = healthChecks + 1
    /\ statsLoads' = IF appVersion = 2 /\ t.activeTab = "dashboard"
                     THEN statsLoads + 1 ELSE statsLoads
    /\ UNCHANGED <<appMounted, activeTab, systemHealth, dashboardStats, interval,
                   intervals, tabClicks>>
    /\ UNCHANGED <<shellVars, outsidePoll>>

\* checkSystemHealth after its await: setSystemHealth(response.data); a state
\* setter of an unmounted component changes nothing
CheckSystemHealthSucceeds(status) ==
    /\ healthChecks > 0
    /\ healthChecks' = healthChecks - 1
    /\ systemHealth' = IF appMounted THEN status ELSE systemHealth
    /\ UNCHANGED <<appMounted, activeTab, dashboardStats, interval, intervals,
                   statsLoads, pollsFired, tabClicks, firedInterval>>
    /\ UNCHANGED <<shellVars, outsidePoll>>

\* checkSystemHealth, catch: setSystemHealth({ status: 'unhealthy' })
CheckSystemHealthFails ==
    /\ healthChecks > 0
    /\ healthChecks' = healthChecks - 1
    /\ systemHealth' = IF appMounted THEN "unhealthy" ELSE systemHealth
    /\ UNCHANGED <<appMounted, activeTab, dashboardStats, interval, intervals,
                   statsLoads, pollsFired, tabClicks, firedInterval>>
    /\ UNCHANGED <<shellVars, outsidePoll>>

\* loadDashboardStats after its Promise.all: each request has its own catch
LoadDashboardStatsResolves(jobsRes, resumesRes, analyticsRes) ==
    /\ statsLoads > 0
    /\ statsLoads' = statsLoads - 1
    /\ dashboardStats' =
          IF appMounted
          THEN [totalJobs |-> LengthOrZero(jobsRes),
                totalResumes |-> LengthOrZero(resumesRes),
                totalMatches |-> TotalMatchesOrZero(analyticsRes)]
          ELSE dashboardStats
    /\ UNCHANGED <<appMounted, activeTab, systemHealth, interval, intervals,
                   healthChecks, pollsFired, tabClicks, firedInterval>>
    /\ UNCHANGED <<shellVars, outsidePoll>>

\* App is unmounted: the cleanup of the effect that ran last runs
UnmountApp ==
    /\ appMounted
    /\ appMounted' = FALSE
    /\ intervals' = clearInterval(intervals, interval)
    /\ UNCHANGED <<activeTab, systemHealth, dashboardStats, interval, healthChecks,
                   statsLoads, pollsFired, tabClicks, firedInterval>>
    /\ UNCHANGED <<shellVars, outsidePoll>>

\* App has been mounted and its effect has run once
PollInit ==
    /\ appVersion \in {2, 3}
    /\ loading = FALSE
    /\ notification = NoNotification
    /\ notifTimers = 0
    /\ ResumePanelUnmounted
    /\ JobPanelUnmounted
    /\ MatchingPanelUnmounted
    /\ AnalyticsPanelUnmounted
    /\ DatabaseSeeded
    /\ appMounted = TRUE
    /\ activeTab = InitialTab
    /\ systemHealth = NullHealth
    /\ dashboardStats = InitialDashboardStats
    /\ interval = 1
    /\ intervals = setInterval({}, 1, InitialTab)
    /\ healthChecks = 1
    /\ statsLoads = (IF appVersion = 2 THEN 1 ELSE 0)
    /\ pollsFired = 0
    /\ tabClicks = 0
    /\ firedInterval = 0

PollNext ==
    \/ \E tab \in Tabs : SetActiveTab(tab)
    \/ \E t \in intervals : IntervalFires(t)
    \/ \E status \in HealthStatuses : CheckSystemHealthSucceeds(status)
    \/ CheckSystemHealthFails
    \/ \E jobsRes \in StatsListOutcomes, resumesRes \in StatsListOutcomes, analyticsRes \in StatsOverviewOutcomes : LoadDashboardStatsResolves(jobsRes, resumesRes, analyticsRes)
    \/ UnmountApp

SpecPoll == PollInit /\ [][PollNext]_vars

\* C17: the cleanup cancels the poll timer: at most one interval timer is
\* active, none is after the unmount, and the timer that fires is the one set
\* by the effect that ran last.
C17_PollTimerCancelled ==
    /\ [](Cardinality(intervals) <= 1)
    /\ [](~appMounted => intervals = {})
    /\ [][\A t \in intervals : IntervalFires(t) => (appMounted /\ t.id = interval)]_vars

\* the tab changed in v2, the second timer fired, then App was unmounted
C17_Witness ==
    /\ appVersion = 2
    /\ tabClicks >= 1
    /\ firedInterval = 2
    /\ ~appMounted

(***************************************************************************)
(* The tables of init.sql.  A row of jobs or resumes is its id; a row of   *)
(* job_resume_matches is its id, job_id and resume_id.  A statement that   *)
(* a constraint rejects changes nothing, so it is no step.                 *)
(***************************************************************************)
MaxDbInserts == 3    \* rows inserted in one run, after the sample jobs

\* SQL NULL in a UUID column; uuid_generate_v4() never returns it
Null == 0

\* the ids uuid_generate_v4() has returned so far for the rows of a table
IssuedIds(table) == 1..(dbNextId[table] - 1)

\* the rows inserted so far, after the sample jobs
Inserted ==
    (dbNextId.jobs - Cardinality(SampleJobs) - 1) + (dbNextId.resumes - 1)
       + (dbNextId.matches - 1)

\* job_id UUID REFERENCES jobs(id): the column is nullable and a NULL passes
\* the foreign key
ForeignKeyHolds(value, table) == value = Null \/ value \in table

\* UNIQUE(job_id, resume_id): rows with a NULL in either column are never
\* duplicates of each other
UniqueHolds(rows, job_id, resume_id) ==
    \/ job_id = Null
    \/ resume_id = Null
    \/ ~\E r \in rows : r.job_id = job_id /\ r.resume_id = resume_id

\* ON DELETE CASCADE of job_id
CascadeJob(rows, id) == { r \in rows : r.job_id # id }

\* ON DELETE CASCADE of resume_id
CascadeResume(rows, id) == { r \in rows : r.resume_id # id }

\* INSERT INTO jobs (...) VALUES (...)
InsertJob ==
    /\ Inserted < MaxDbInserts
    /\ dbJobs' = dbJobs \cup {dbNextId.jobs}
    /\ dbJobStatus' = [id \in dbJobs' |-> IF id \in dbJobs THEN dbJobStatus[id] ELSE JobDefaults]
    /\ dbNextId' = [dbNextId EXCEPT !.jobs = @ + 1]
    /\ UNCHANGED <<dbResumes, dbMatches, dbResumeStatus, dbWrites>>
    /\ UNCHANGED <<shellVars, outsideDatabase>>

\* INSERT INTO resumes (...) VALUES (...)
InsertResume ==
    /\ Inserted < MaxDbInserts
    /\ dbResumes' = dbResumes \cup {dbNextId.resumes}
    /\ dbResumeStatus' =
          [id \in dbResumes' |-> IF id \in dbResumes THEN dbResumeStatus[id] ELSE ResumeDefaults]
    /\ dbNextId' = [dbNextId EXCEPT !.resumes = @ + 1]
    /\ UNCHANGED <<dbJobs, dbMatches, dbJobStatus, dbWrites>>
    /\ UNCHANGED <<shellVars, outsideDatabase>>

\* INSERT INTO job_resume_matches (job_id, resume_id, overall_score, ...)
InsertMatch(job_id, resume_id) ==
    /\ Inserted < MaxDbInserts
    /\ ForeignKeyHolds(job_id, dbJobs)
    /\ ForeignKeyHolds(resume_id, dbResumes)
    /\ UniqueHolds(dbMatches, job_id, resume_id)
    /\ dbMatches' = dbMatches \cup
          { [id |-> dbNextId.matches, job_id |-> job_id, resume_id |-> resume_id] }
    /\ dbNextId' = [dbNextId EXCEPT !.matches = @ + 1]
    /\ UNCHANGED <<dbJobs, dbResumes, dbJobStatus, dbResumeStatus, dbWrites>>
    /\ UNCHANGED <<shellVars, outsideDatabase>>

\* DELETE FROM jobs WHERE id = ...
DeleteJob(id) ==
    /\ id \in dbJobs
    /\ dbJobs' = dbJobs \ {id}
    /\ dbMatches' = CascadeJob(dbMatches, id)
    /\ dbJobStatus' = [j \in dbJobs' |-> dbJobStatus[j]]
    /\ UNCHANGED <<dbResumes, dbResumeStatus, dbWrites, dbNextId>>
    /\ UNCHANGED <<shellVars, outsideDatabase>>

\* DELETE FROM resumes WHERE id = ...
DeleteResume(id) ==
    /\ id \in dbResumes
    /\ dbResumes' = dbResumes \ {id}
    /\ dbMatches' = CascadeResume(dbMatches, id)
    /\ dbResumeStatus' = [r \in dbResumes' |-> dbResumeStatus[r]]
    /\ UNCHANGED <<dbJobs, dbJobStatus, dbWrites, dbNextId>>
    /\ UNCHANGED <<shellVars, outsideDatabase>>

\* DELETE FROM job_resume_matches WHERE id = ...
DeleteMatch(row) ==
    /\ row \in dbMatches
    /\ dbMatches' = dbMatches \ {row}
    /\ UNCHANGED <<dbJobs, dbResumes, dbJobStatus, dbResumeStatus, dbWrites, dbNextId>>
    /\ UNCHANGED <<shellVars, outsideDatabase>>

\* init.sql has run; no front end is looked at
DatabaseInit ==
    /\ appVersion = 3
    /\ loading = FALSE
    /\ notification = NoNotification
    /\ notifTimers = 0
    /\ ResumePanelUnmounted
    /\ JobPanelUnmounted
    /\ MatchingPanelUnmounted
    /\ AnalyticsPanelUnmounted
    /\ HealthPollNotStarted
    /\ DatabaseSeeded

DatabaseNext ==
    \/ InsertJob
    \/ InsertResume
    \/ \E job_id \in IssuedIds("jobs") \cup {Null}, resume_id \in IssuedIds("resumes") \cup {Null} : InsertMatch(job_id, resume_id)
    \/ \E id \in dbJobs : DeleteJob(id)
    \/ \E id \in dbResumes : DeleteResume(id)
    \/ \E row \in dbMatches : DeleteMatch(row)

SpecDatabase == DatabaseInit /\ [][DatabaseNext]_vars

\* C18: every row of job_resume_matches references one existing job and one
\* existing resume.
C18_MatchReferencesJobAndResume ==
    \A r \in dbMatches : r.job_id \in dbJobs /\ r.resume_id \in dbResumes

\* what the foreign keys do ensure: a reference that is not NULL is to an
\* existing row, so a delete leaves no match row behind that names the
\* deleted job or resume
ReferencesExistOrNull ==
    \A r \in dbMatches :
       /\ r.job_id # Null => r.job_id \in dbJobs
       /\ r.resume_id # Null => r.resume_id \in dbResumes

(***************************************************************************)
(* The upload flow with the browser's timers running: a timer that has     *)
(* been set fires.                                                         *)
(***************************************************************************)
SpecUploadFair == SpecUpload /\ WF_vars(RefreshTimerFires)

\* the invocation s of ResumeManager.handleFileUpload returns in this step
BatchEnds(s) == appVersion # 1 /\ uploads[s].pc # "done" /\ uploads'[s].pc = "done"

MaxStatusWrites == 2    \* writes of a status column by the backend in one run

\* the enumerated values of processing_status and embedding_status
Statuses == {"pending", "processing", "completed", "failed"}

\* the backend writes the embedding_status of a job
BackendSetsJobEmbeddingStatus(id, value) ==
    /\ id \in dbJobs
    /\ value # dbJobStatus[id].embedding_status
    /\ dbWrites < MaxStatusWrites
    /\ dbWrites' = dbWrites + 1
    /\ dbJobStatus' = [dbJobStatus EXCEPT ![id].embedding_status = value]
    /\ UNCHANGED <<dbJobs, dbResumes, dbMatches, dbResumeStatus, dbNextId>>
    /\ UNCHANGED <<shellVars, outsideDatabase>>

\* the backend writes the processing_status of a resume
BackendSetsResumeProcessingStatus(id, value) ==
    /\ id \in dbResumes
    /\ value # dbResumeStatus[id].processing_status
    /\ dbWrites < MaxStatusWrites
    /\ dbWrites' = dbWrites + 1
    /\ dbResumeStatus' = [dbResumeStatus EXCEPT ![id].processing_status = value]
    /\ UNCHANGED <<dbJobs, dbResumes, dbMatches, dbJobStatus, dbNextId>>
    /\ UNCHANGED <<shellVars, outsideDatabase>>

\* the backend writes the embedding_status of a resume
BackendSetsResumeEmbeddingStatus(id, value) ==
    /\ id \in dbResumes
    /\ value # dbResumeStatus[id].embedding_status
    /\ dbWrites < MaxStatusWrites
    /\ dbWrites' = dbWrites + 1
    /\ dbResumeStatus' = [dbResumeStatus EXCEPT ![id].embedding_status = value]
    /\ UNCHANGED <<dbJobs, dbResumes, dbMatches, dbJobStatus, dbNextId>>
    /\ UNCHANGED <<shellVars, outsideDatabase>>

StatusNext ==
    \/ InsertJob
    \/ InsertResume
    \/ \E id \in dbJobs, value \in Statuses : BackendSetsJobEmbeddingStatus(id, value)
    \/ \E id \in dbResumes, value \in Statuses : BackendSetsResumeProcessingStatus(id, value)
    \/ \E id \in dbResumes, value \in Statuses : BackendSetsResumeEmbeddingStatus(id, value)

SpecStatus == DatabaseInit /\ [][StatusNext]_vars

SpecNotifyFair == SpecUpload /\ WF_vars(NotificationTimerFires)

\* C22: a notification on screen has its 5 s timer pending, and it does not
\* stay: it is cleared by a timer or by the dismiss button.
C22_NotificationTransient ==
    /\ [](notification # NoNotification => notifTimers > 0)
    /\ (notification # NoNotification) ~> (notification = NoNotification)

\* a batch with a rejected file has notified, and nothing is left on screen
\* and no timer is left pending
C22_Witness ==
    /\ \E s \in UploadSlots :
         /\ uploads[s].pc = "done"
         /\ \E j \in 1..Len(uploads[s].files) : ~Acceptable(uploads[s].files[j])
    /\ notification = NoNotification
    /\ notifTimers = 0

\* C26: the timer that clears the notification on screen is that
\* notification's own timer, the one set last: no timer of an earlier
\* notification is pending when it fires.
C26_OwnTimerClears ==
    [][(NotificationTimerFires /\ notification # NoNotification) => notifTimers = 1]_vars

(***************************************************************************)
(* The create-job request of a filled form: the user has typed the         *)
(* required fields, the two list fields among them, and submits.           *)
(***************************************************************************)
MaxTextLen == 3    \* characters typed into the requirements textarea

\* the characters typed into the requirements textarea
ListAlphabet == {" ", ",", "a", "b"}

\* what the user has typed into the requirements textarea
ListTexts == UNION { [1..n -> ListAlphabet] : n \in 0..MaxTextLen }

\* what the user has typed into the required-skills textarea
SkillTexts == { <<"b", " ", "c", ",", "a">>, <<",", " ", ",">> }

\* JobManager has been mounted and the form has been filled in
JobDataInit ==
    /\ appVersion = 3
    /\ loading = TRUE
    /\ notification = NoNotification
    /\ notifTimers = 0
    /\ ResumePanelUnmounted
    /\ MatchingPanelUnmounted
    /\ AnalyticsPanelUnmounted
    /\ HealthPollNotStarted
    /\ DatabaseSeeded
    /\ \E requirements \in ListTexts, required_skills \in SkillTexts :
         jobForm = [InitialJobForm EXCEPT !.title = <<"x">>, !.company = <<"x">>,
                                          !.description = <<"x">>, !.location = <<"x">>,
                                          !.requirements = requirements,
                                          !.required_skills = required_skills]
    /\ filters = InitialFilters
    /\ jobs = ListData(<<>>)
    /\ jobPosts = <<>>
    /\ jobLoads = 1
    /\ jobClicks = 0
    /\ filterEdits = 0
    /\ jobPostsIssued = 0

JobDataNext ==
    \/ SubmitJobForm
    \/ \E k \in 1..Len(jobPosts) : SubmitJobSucceeds(k)
    \/ \E k \in 1..Len(jobPosts), err \in Errors : SubmitJobFails(k, err)
    \/ \E data \in JobListResponses : LoadJobsSucceeds(data)
    \/ \E err \in Errors : LoadJobsFails(err)
    \/ NotificationTimerFires
    \/ DismissNotification

SpecJobData == JobDataInit /\ [][JobDataNext]_vars

\* the places where text is cut: its commas and its two ends
Cuts(text) == {0, Len(text) + 1} \cup { k \in 1..Len(text) : text[k] = "," }

\* the k-th cut from the left
NthCut(text, k) ==
    CHOOSE c \in Cuts(text) : Cardinality({ d \in Cuts(text) : d < c }) = k - 1

\* the text between the k-th cut and the next
Piece(text, k) == SubSeq(text, NthCut(text, k) + 1, NthCut(text, k + 1) - 1)

\* a piece from its first to its last character that is not whitespace
Stripped(piece) ==
    LET solid == { i \in 1..Len(piece) : piece[i] \notin {" ", "\t", "\n"} }
    IN  IF solid = {} THEN <<>>
        ELSE SubSeq(piece, CHOOSE i \in solid : \A j \in solid : i <= j,
                           CHOOSE i \in solid : \A j \in solid : i >= j)

\* the comma-separated pieces of text, each stripped, in their order, the
\* empty ones left out
ExpectedList(text) ==
    LET n == Cardinality(Cuts(text)) - 1
        IsNotEmpty(piece) == piece # <<>>
    IN  SelectSeq([k \in 1..n |-> Stripped(Piece(text, k))], IsNotEmpty)

\* no element is empty or begins or ends with whitespace
CleanList(list) ==
    \A i \in 1..Len(list) :
        /\ list[i] # <<>>
        /\ list[i][1] \notin {" ", "\t", "\n"}
        /\ list[i][Len(list[i])] \notin {" ", "\t", "\n"}

\* C23: the requirements and required_skills of a create-job request are the
\* comma-separated pieces of the form text, trimmed, in order, without the
\* empty ones, and every other field is sent as the form has it.
C23_ListsSent ==
    [][jobPostsIssued' = jobPostsIssued + 1 =>
         LET sent == jobPosts'[Len(jobPosts')]
         IN  /\ sent.requirements = ExpectedList(jobForm.requirements)
             /\ sent.required_skills = ExpectedList(jobForm.required_skills)
             /\ CleanList(sent.requirements)
             /\ CleanList(sent.required_skills)
             /\ \A field \in DOMAIN jobForm \ {"requirements", "required_skills"} :
                   sent[field] = jobForm[field]]_vars

\* the request of a form whose requirements end with a comma and a blank and
\* whose skills are "b c,a" is in flight
C23_Witness ==
    /\ jobPosts # <<>>
    /\ jobForm.requirements = <<"a", ",", " ">>
    /\ jobForm.required_skills = <<"b", " ", "c", ",", "a">>
    /\ jobPosts[1].requirements = << <<"a">> >>
    /\ jobPosts[1].required_skills = << <<"b", " ", "c">>, <<"a">> >>

(***************************************************************************)
(* Claims about the loading flag.                                          *)
(***************************************************************************)
\* the requests in flight whose handler raised the loading flag before it
\* issued them, and the batches of the first App, which keep the flag up from
\* their first file to their last; loadJobs of MatchingDashboard, loadResumes
\* of the first App, the uploads of ResumeManager and the health poll do not
\* touch the flag
RequestsInFlight ==
    Len(jobPosts) + jobLoads + Len(matchRequests) + analyticsLoads
      + (IF appVersion = 1
         THEN Cardinality({ s \in DOMAIN uploads : uploads[s].pc \in {"loop", "awaiting"} })
         ELSE resumeLoads)

\* C24: the loading flag is up whenever a request whose handler raised it is
\* still in flight.
C24_LoadingWhileInFlight == RequestsInFlight > 0 => loading

\* C25: once every request in flight has resolved or failed, the loading flag
\* is down.
C25_LoadingNotStuck == RequestsInFlight = 0 => ~loading

\* a job was created, the reload that handleSubmit started has resolved too,
\* and the flag is down
C25_Witness ==
    /\ jobPostsIssued > 0
    /\ RequestsInFlight = 0
    /\ notification.type = "success"
    /\ jobForm = InitialJobForm
    /\ ~loading

(***************************************************************************)
(* The match list and the selected job of the matching panel.              *)
(***************************************************************************)

\* C27: the match list and the selected job are a consistent pair: whenever the
\* match list is non-empty a job is selected, and every match of the list was
\* returned by the backend for that job.
C27_MatchesOfSelectedJob ==
    DataOrEmpty(matches) # <<>>
    => /\ selectedJob # <<>>
       /\ \A i \in 1..Len(matches.items) : matches.items[i].job_id = selectedJob[1].job_id

\* two requests for different jobs were made, both have resolved, the second
\* one failed or succeeded after the first, and a non-empty list is shown
C27_Witness ==
    /\ matchClicks = 2
    /\ matchRequests = <<>>
    /\ \E i, j \in 1..Len(mdJobs) : mdJobs[i].job_id # mdJobs[j].job_id
    /\ selectedJob # <<>>
    /\ DataOrEmpty(matches) # <<>>
    /\ notification.type = "error"

(***************************************************************************)
(* The first App (App.js:7-482) has no MatchingDashboard: it keeps jobs,   *)
(* matches and selectedJob itself, loads the jobs in its mount effect and  *)
(* renders a Find Matches button on every job card.                        *)
(***************************************************************************)

\* loadJobs of the first App: the GET resolves, setJobs(response.data || [])
AppLoadJobsSucceeds(data) ==
    /\ ~RenderThrows
    /\ mdJobLoads > 0
    /\ mdJobLoads' = mdJobLoads - 1
    /\ mdJobs' = DataOrEmpty(data)
    /\ UNCHANGED <<mdVersion, searchQuery, selectedJob, matches, matchRequests, matchClicks,
                   appliedRequest>>
    /\ UNCHANGED <<shellVars, outsideMatching>>

\* loadJobs of the first App: the GET is rejected, console.error only
AppLoadJobsFails ==
    /\ ~RenderThrows
    /\ mdJobLoads > 0
    /\ mdJobLoads' = mdJobLoads - 1
    /\ UNCHANGED <<mdVersion, mdJobs, searchQuery, selectedJob, matches, matchRequests,
                   matchClicks, appliedRequest>>
    /\ UNCHANGED <<shellVars, outsideMatching>>

\* findMatches(job.job_id) of the first App up to its await: the button of a
\* job card is clicked, which is disabled only while loading is true
AppFindMatches(job) ==
    /\ ~RenderThrows
    /\ matchClicks < MaxMatchClicks
    /\ ~loading
    /\ \E i \in 1..Len(mdJobs) : mdJobs[i] = job
    /\ matchClicks' = matchClicks + 1
    /\ loading' = TRUE
    /\ matchRequests' = Append(matchRequests, [job_id |-> job.job_id, no |-> matchClicks + 1])
    /\ UNCHANGED <<mdVersion, mdJobs, searchQuery, selectedJob, matches, mdJobLoads,
                   appliedRequest>>
    /\ UNCHANGED <<appVersion, notification, notifTimers, outsideMatching>>

\* findMatches of the first App: the k-th POST in flight resolves
AppFindMatchesSucceeds(k, data) ==
    /\ ~RenderThrows
    /\ k \in 1..Len(matchRequests)
    /\ data \in MatchResponses(matchRequests[k].job_id)
    /\ matchRequests' = RemoveAt(matchRequests, k)
    /\ matches' = ListData(DataOrEmpty(data))
    /\ selectedJob' = FindJob(matchRequests[k].job_id)
    /\ appliedRequest' = matchRequests[k].no
    /\ showNotification(FoundMessage(Len(DataOrEmpty(data))), "success")
    /\ loading' = FALSE
    /\ UNCHANGED <<mdVersion, mdJobs, searchQuery, mdJobLoads, matchClicks>>
    /\ UNCHANGED <<appVersion, outsideMatching>>

\* findMatches of the first App: the k-th POST in flight is rejected
AppFindMatchesFails(k, err) ==
    /\ ~RenderThrows
    /\ k \in 1..Len(matchRequests)
    /\ matchRequests' = RemoveAt(matchRequests, k)
    /\ showNotification(Message("Matching failed: ", <<>>, err.message), "error")
    /\ loading' = FALSE
    /\ UNCHANGED <<mdVersion, mdJobs, searchQuery, selectedJob, matches, mdJobLoads,
                   matchClicks, appliedRequest>>
    /\ UNCHANGED <<appVersion, outsideMatching>>

\* the first App has just been mounted: its effect has called loadJobs()
AppMatchingInit ==
    /\ appVersion = 1
    /\ loading = FALSE
    /\ notification = NoNotification
    /\ notifTimers = 0
    /\ ResumePanelUnmounted
    /\ JobPanelUnmounted
    /\ AnalyticsPanelUnmounted
    /\ HealthPollNotStarted
    /\ DatabaseSeeded
    /\ mdVersion = 0
    /\ mdJobs = <<>>
    /\ searchQuery = <<>>
    /\ selectedJob = <<>>
    /\ matches = ListData(<<>>)
    /\ mdJobLoads = 1
    /\ matchRequests = <<>>
    /\ matchClicks = 0
    /\ appliedRequest = 0

AppMatchingNext ==
    \/ AppLoadJobsFails
    \/ \E data \in MDJobListResponses : AppLoadJobsSucceeds(data)
    \/ \E i \in 1..Len(mdJobs) : AppFindMatches(mdJobs[i])
    \/ \E k \in 1..Len(matchRequests) :
         \E data \in MatchResponses(matchRequests[k].job_id) : AppFindMatchesSucceeds(k, data)
    \/ \E k \in 1..Len(matchRequests), err \in Errors : AppFindMatchesFails(k, err)
    \/ NotificationTimerFires
    \/ DismissNotification

SpecAppMatching == AppMatchingInit /\ [][AppMatchingNext]_vars

\* C28: a match request is only ever issued for a job whose embedding_status
\* is "completed" in the job list loaded last: whenever a Find Matches click
\* issues a request, the requested job is in the list and is completed there.
C28_MatchOnlyCompletedJobs ==
    [][matchClicks' # matchClicks
       => LET requested == matchRequests'[Len(matchRequests')].job_id
          IN  /\ \E i \in 1..Len(mdJobs) : mdJobs[i].job_id = requested
              /\ \A i \in 1..Len(mdJobs) :
                    mdJobs[i].job_id = requested => IsCompleted(mdJobs[i])]_vars

\* C29: every upload request in flight has an entry in the upload-progress
\* map for its whole duration, also when two batches run at the same time and
\* contain files with the same name.
C29_InFlightHasProgressEntry ==
    appVersion # 1 => NamesInFlight \subseteq DOMAIN uploadProgress

(***************************************************************************)
(* UNIQUE(job_id, resume_id) of job_resume_matches.                        *)
(***************************************************************************)

\* C30: job_resume_matches holds at most one row per (job_id, resume_id) pair
\* after any sequence of inserts: no two rows of the table have the same
\* job_id and the same resume_id.
C30_OneRowPerPair ==
    \A r1, r2 \in dbMatches :
       (r1.job_id = r2.job_id /\ r1.resume_id = r2.resume_id) => r1 = r2

\* what the constraint does ensure: no two rows name the same job and the same
\* resume when neither column is NULL
OneRowPerNonNullPair ==
    \A r1, r2 \in dbMatches :
       (/\ r1.job_id # Null /\ r1.resume_id # Null
        /\ r1.job_id = r2.job_id /\ r1.resume_id = r2.resume_id) => r1 = r2

====
